---- MODULE Spec2Model ----
(***************************************************************************)
(* Bulk Sync & Incremental Diff Engine of the multi-country feed           *)
(* (meta-auto-country-feed, with the google-auto-country-feed fingerprint).*)
(* Persisted files are variables, every handler is one action, the pure    *)
(* helpers are operators.                                                  *)
(***************************************************************************)
EXTENDS Integers, Sequences, FiniteSets, TLC

VARIABLES
    variant_states,     \* cache/variant_states.json: composite id -> [stock_status, last_updated]
    sync_state,         \* cache/sync_state.json: <<>> or <<last_successful_run>>
    mapping_hash_file,  \* cache/mapping_comparison.json: NoHash or the saved hash
    feed_files,         \* the output directory: country -> rows of country_feed_<c>.csv
    now,                \* the wall clock, datetime.now(timezone.utc), in units of 5 s
    SMART_MAPPING_ENABLED, \* settings.SMART_MAPPING_ENABLED
    markets,            \* remote: the region codes of the shop's markets
    shop_locations,     \* remote: location id -> [country_code, is_active]
    delivery,           \* remote: location id -> countries of its delivery zones
    inventory,          \* remote: <<variant, location>> -> available quantity
    pc,                 \* where the running command stands
    run,                \* the locals of the running command
    snap,               \* the persisted files as the running command found them
    runs,               \* commands started so far
    env_changes,        \* remote changes made so far
    last_detect,        \* the last mapping build whose hash was saved
    changed_since,      \* kinds of remote change since that build
    store_input,        \* SpecStore: the list of CountryVariants the calls are made with
    store_op,           \* SpecStore: the last StateManager call and its result
    bulk                \* the BulkOperationsHandler's calls of one run and the remote jobs

storeVars == <<variant_states, now, store_input, store_op>>

persistVars == <<variant_states, sync_state, mapping_hash_file, feed_files>>
envVars == <<markets, shop_locations, delivery, inventory>>
ghostVars == <<last_detect, changed_since>>
runVars == <<pc, run, snap, runs>>

vars == <<variant_states, sync_state, mapping_hash_file, feed_files, now,
          SMART_MAPPING_ENABLED, markets, shop_locations, delivery, inventory, pc, run,
          snap, runs, env_changes, last_detect, changed_since, store_input, store_op,
          bulk>>

-----------------------------------------------------------------------------
(* Bounds *)

\* longest list of CountryVariants handed to the StateManager in SpecStore
MaxLen == 3
\* the clock stops advancing here
MaxNow == 3
\* commands started in one behaviour of Spec
MaxRuns == 2
\* polls of one job followed in SpecBulk
MaxPolls == 3
\* remote changes in one behaviour of Spec
MaxEnvChanges == 1
\* largest available quantity of one inventory level
MaxQty == 1

-----------------------------------------------------------------------------
(* Values *)

IN_STOCK == "in stock"
OUT_OF_STOCK == "out of stock"

Variants == {"V1", "V2"}
Countries == {"US", "CA"}

\* variant.get('id') of a record that carries no id
NoId == <<>>

\* f"{numeric_variant_id}-{country_code}"; numeric ids hold no "-", so the
\* pair is the string
CompositeId(v, c) == <<v, c>>

EmptyMap == <<>>

Put(f, k, v) == [x \in (DOMAIN f) \cup {k} |-> IF x = k THEN v ELSE f[x]]

\* a CountryVariant as _create_country_variant_from_bulk builds it
CountryVariant(v, c, qty, sku, product) ==
    [id |-> CompositeId(v, c), shopify_variant_id |-> v, country_code |-> c,
     inventory_quantity |-> qty, sku |-> sku, product_id |-> product]

-----------------------------------------------------------------------------
(* StateManager *)

\* int(float(str(value))) of an integer quantity; None and unparsable text
\* give 0, the quantities of the pipeline are integers
_safe_int(value) == IF value \in Int THEN value ELSE 0

StockStatusOf(variant) ==
    IF _safe_int(variant.inventory_quantity) > 0 THEN IN_STOCK ELSE OUT_OF_STOCK

\* variant_lookup of detect_stock_changes: a dict in insertion order, a later
\* duplicate id replaces the value and keeps the position
RECURSIVE BuildLookup(_, _, _)
BuildLookup(current_variants, i, acc) ==
    IF i > Len(current_variants) THEN acc
    ELSE LET variant == current_variants[i]
             variant_id == variant.id
         IN  IF variant_id # NoId
             THEN BuildLookup(current_variants, i + 1,
                      [keys |-> IF variant_id \in DOMAIN acc.val
                                THEN acc.keys ELSE Append(acc.keys, variant_id),
                       val  |-> Put(acc.val, variant_id,
                                    [variant |-> variant,
                                     current_status |-> StockStatusOf(variant)])])
             ELSE BuildLookup(current_variants, i + 1, acc)

variant_lookup(current_variants) ==
    BuildLookup(current_variants, 1, [keys |-> <<>>, val |-> EmptyMap])

RECURSIVE CompareStates(_, _, _, _)
CompareStates(existing_states, lookup, i, acc) ==
    IF i > Len(lookup.keys) THEN acc
    ELSE LET variant_id == lookup.keys[i]
             entry == lookup.val[variant_id]
         IN  IF variant_id \notin DOMAIN existing_states
             THEN CompareStates(existing_states, lookup, i + 1,
                      [acc EXCEPT !.new = Append(@, entry.variant)])
             ELSE IF existing_states[variant_id].stock_status # entry.current_status
             THEN CompareStates(existing_states, lookup, i + 1,
                      [acc EXCEPT !.changed = Append(@, entry.variant)])
             ELSE CompareStates(existing_states, lookup, i + 1, acc)

\* a diff that never reads the persisted states
detect_stock_changes_unread(existing_states, current_variants) ==
    CompareStates(EmptyMap, variant_lookup(current_variants), 1,
                  [new |-> <<>>, changed |-> <<>>])

detect_stock_changes(existing_states, current_variants) ==
    IF current_variants = <<>>
    THEN [new |-> <<>>, changed |-> <<>>]
    ELSE CompareStates(existing_states, variant_lookup(current_variants), 1,
                       [new |-> <<>>, changed |-> <<>>])

RECURSIVE UpdateLoop(_, _, _, _)
UpdateLoop(existing_states, variants, timestamp, i) ==
    IF i > Len(variants) THEN existing_states
    ELSE LET variant == variants[i]
             variant_id == variant.id
         IN  IF variant_id # NoId
             THEN UpdateLoop(Put(existing_states, variant_id,
                                 [stock_status |-> StockStatusOf(variant),
                                  last_updated |-> timestamp]),
                             variants, timestamp, i + 1)
             ELSE UpdateLoop(existing_states, variants, timestamp, i + 1)

\* a commit that keeps the entry a key already has (dict.setdefault)
update_variant_states_setdefault(existing_states, variants, timestamp) ==
    LET updated == UpdateLoop(existing_states, variants, timestamp, 1)
    IN  [k \in DOMAIN updated |->
            IF k \in DOMAIN existing_states THEN existing_states[k] ELSE updated[k]]

\* a commit that writes only the keys of its input
update_variant_states_rebuild(existing_states, variants, timestamp) ==
    UpdateLoop(EmptyMap, variants, timestamp, 1)

\* a commit that stamps the entries with the time the file already carried
update_variant_states_old_stamp(existing_states, variants, timestamp) ==
    UpdateLoop(existing_states, variants, 0, 1)

update_variant_states(existing_states, variants, timestamp) ==
    IF variants = <<>> THEN existing_states
    ELSE UpdateLoop(existing_states, variants, timestamp, 1)

\* a reset that leaves the file in place
reset_variant_states_keep(existing_states) == existing_states

\* variant_states_file.unlink(): _load_variant_states then returns {}
reset_variant_states(existing_states) == EmptyMap

-----------------------------------------------------------------------------
(* CountryLocationMapper *)

Locations == {"L1", "L2"}

\* sorted() of country codes and of location ids
CountryOrder == <<"CA", "US">>
LocationOrder == <<"L1", "L2">>

RECURSIVE SortedFrom(_, _)
SortedFrom(order, S) ==
    IF order = <<>> THEN <<>>
    ELSE IF Head(order) \in S THEN <<Head(order)>> \o SortedFrom(Tail(order), S)
    ELSE SortedFrom(Tail(order), S)

\* _parse_active_countries (meta): every region code the markets query returns
_parse_active_countries(markets_data) == markets_data

\* _parse_active_countries (google): filtered to settings.TARGET_COUNTRIES
_parse_active_countries_google(markets_data, target_countries) ==
    markets_data \cap target_countries

\* served_countries of one location: the delivery-profile countries that are
\* active, in no particular order
ServedCountries(location_id, active_countries, delivery_relationships) ==
    IF location_id \in DOMAIN delivery_relationships
    THEN delivery_relationships[location_id] \cap active_countries
    ELSE {}

\* the outcomes of the delivery-profile query: answered; execute_query raised;
\* the answer carries "errors"; a continuation page raised
DELIVERY_OK == "ok"
DELIVERY_EXCEPTION == "exception"
DELIVERY_ERRORS == "errors"
DELIVERY_PAGE_FAILED == "page_failed"
DeliveryFailures == {DELIVERY_EXCEPTION, DELIVERY_ERRORS, DELIVERY_PAGE_FAILED}

\* a query that keeps what the first page gave when a continuation page fails
get_location_country_relationships_keep_first_page(answer) ==
    IF answer.kind \in {DELIVERY_OK, DELIVERY_PAGE_FAILED}
    THEN answer.relationships ELSE EmptyMap

\* get_location_country_relationships: location id -> country codes of its
\* zones; every failure is caught and answered with {}
get_location_country_relationships(answer) ==
    IF answer.kind = DELIVERY_OK THEN answer.relationships ELSE EmptyMap

\* a mapping that does not look at is_active
_create_country_mapping_any_location(locations, active_countries, delivery_relationships) ==
    LET served(l) == ServedCountries(l, active_countries, delivery_relationships)
        mapped == { l \in DOMAIN locations :
                      \/ served(l) # {}
                      \/ locations[l].country_code \in active_countries }
    IN  [l \in mapped |->
            [countries |-> IF served(l) # {} THEN served(l)
                           ELSE {locations[l].country_code}]]

\* location id -> the countries it serves; a location with a delivery entry
\* none of whose countries is active falls through to its declared country
_create_country_mapping(locations, active_countries, delivery_relationships) ==
    LET served(l) == ServedCountries(l, active_countries, delivery_relationships)
        mapped == { l \in DOMAIN locations :
                      /\ locations[l].is_active
                      /\ \/ served(l) # {}
                         \/ locations[l].country_code \in active_countries }
    IN  [l \in mapped |->
            [countries |-> IF served(l) # {} THEN served(l)
                           ELSE {locations[l].country_code}]]

\* a hash that also covers the time of the build
_generate_mapping_hash_created_at(active_countries, location_country_map) ==
    <<"bulk_operations", SortedFrom(CountryOrder, active_countries),
      SortedFrom(LocationOrder, DOMAIN location_country_map), now>>

\* a hash of the countries alone
_generate_mapping_hash_countries(active_countries, location_country_map) ==
    <<"bulk_operations", SortedFrom(CountryOrder, active_countries)>>

\* a hash that also covers the countries each location serves
_generate_mapping_hash_associations(active_countries, location_country_map) ==
    <<"bulk_operations", SortedFrom(CountryOrder, active_countries),
      SortedFrom(LocationOrder, DOMAIN location_country_map), location_country_map>>

\* md5 of the canonical JSON text, taken as the text itself: equal hashes are
\* equal texts
_generate_mapping_hash(active_countries, location_country_map) ==
    <<"bulk_operations", SortedFrom(CountryOrder, active_countries),
      SortedFrom(LocationOrder, DOMAIN location_country_map)>>

\* the google deployment hashes the allow-list instead of the method tag
_generate_mapping_hash_google(active_countries, location_country_map, target_countries) ==
    <<SortedFrom(CountryOrder, active_countries),
      SortedFrom(LocationOrder, DOMAIN location_country_map),
      SortedFrom(CountryOrder, target_countries)>>

\* _load_previous_mapping_hash when mapping_comparison.json does not exist
NoHash == <<>>

\* _build_fresh_mapping once both remote answers are in
BuildMapping(markets_data, locations_map, delivery_relationships) ==
    LET active_countries == _parse_active_countries(markets_data)
        country_location_map ==
            _create_country_mapping(locations_map, active_countries, delivery_relationships)
    IN  [active_countries |-> active_countries,
         location_country_map |-> country_location_map,
         mapping_hash |-> _generate_mapping_hash(active_countries, country_location_map)]

\* the comparison of get_mapping_with_change_detection
\* _build_fresh_mapping of the google deployment
BuildMappingGoogle(markets_data, locations_map, delivery_relationships, target_countries) ==
    LET active_countries == _parse_active_countries_google(markets_data, target_countries)
        country_location_map ==
            _create_country_mapping(locations_map, active_countries, delivery_relationships)
    IN  [active_countries |-> active_countries,
         location_country_map |-> country_location_map,
         mapping_hash |-> _generate_mapping_hash_google(active_countries,
                                                        country_location_map,
                                                        target_countries)]

REASON_FIRST_RUN == "No previous mapping found - first run"
REASON_MISMATCH == "Mapping structure changed - hash mismatch"
REASON_MATCH == "Mapping unchanged - hash match"
REASON_DISABLED == "Smart mapping disabled"

\* a comparison that treats a missing file as a mismatch
CompareHash_no_first_run(previous_hash, current_hash) ==
    IF previous_hash # current_hash
    THEN [has_changed |-> TRUE, reason |-> REASON_MISMATCH]
    ELSE [has_changed |-> FALSE, reason |-> REASON_MATCH]

CompareHash(previous_hash, current_hash) ==
    IF previous_hash = NoHash
    THEN [has_changed |-> TRUE, reason |-> REASON_FIRST_RUN]
    ELSE IF previous_hash # current_hash
    THEN [has_changed |-> TRUE, reason |-> REASON_MISMATCH]
    ELSE [has_changed |-> FALSE, reason |-> REASON_MATCH]

-----------------------------------------------------------------------------
(* ProductLoader *)

\* gid://shopify/<kind>/<num>; a record without the key reads ''
Gid(kind, num) == [kind |-> kind, num |-> num]
NoGid == Gid("", "")

\* 'ProductVariant' in record_id, 'Product' in record_id
ContainsProductVariant(gid) == gid.kind = "ProductVariant"
ContainsProduct(gid) == gid.kind \in {"Product", "ProductVariant"}

\* one line of the JSONL export; decodable = the line is utf-8 text,
\* valid = json.loads succeeds, is_object = the JSON value is an object
VariantLine(v, sku, product) ==
    [decodable |-> TRUE, valid |-> TRUE, is_object |-> TRUE, id |-> Gid("ProductVariant", v), parentId |-> NoGid,
     product |-> product, sku |-> sku,
     has_location |-> FALSE, location |-> "", has_quantities |-> FALSE, available |-> 0]

LevelLine(v, l, qty) ==
    [decodable |-> TRUE, valid |-> TRUE, is_object |-> TRUE, id |-> NoGid, parentId |-> Gid("ProductVariant", v),
     product |-> "", sku |-> "",
     has_location |-> TRUE, location |-> l, has_quantities |-> TRUE, available |-> qty]

\* text that is no JSON; bytes that are no utf-8; JSON that is no object
BadJsonLine ==
    [LevelLine("", "", 0) EXCEPT !.valid = FALSE, !.is_object = FALSE, !.parentId = NoGid]
BadEncodingLine == [BadJsonLine EXCEPT !.decodable = FALSE]
NotObjectLine == [BadJsonLine EXCEPT !.valid = TRUE]

\* what ends the for loop over the file: the decoder raises
\* UnicodeDecodeError on a line that is no utf-8, inside the outer try only;
\* record.get raises AttributeError on a JSON value that is no object, which
\* the inner except (json.JSONDecodeError) does not catch
Raises(stream) ==
    \E i \in DOMAIN stream :
        \/ ~stream[i].decodable
        \/ stream[i].valid /\ ~stream[i].is_object

\* a build that keeps an inventory level only when its variant came first
RECURSIVE ProcessBulkRecords_parent_first(_, _, _)
ProcessBulkRecords_parent_first(stream, i, acc) ==
    IF i > Len(stream) THEN acc
    ELSE LET record == stream[i] IN
         IF ~record.valid THEN ProcessBulkRecords_parent_first(stream, i + 1, acc)
         ELSE IF record.id # NoGid /\ record.parentId = NoGid
                 /\ ContainsProductVariant(record.id)
         THEN ProcessBulkRecords_parent_first(stream, i + 1,
                  [acc EXCEPT
                     !.variant_ids = IF record.id \in DOMAIN acc.variants
                                     THEN @ ELSE Append(@, record.id),
                     !.variants = Put(@, record.id, record)])
         ELSE IF record.parentId \in DOMAIN acc.variants
                 /\ record.has_location /\ record.has_quantities
         THEN ProcessBulkRecords_parent_first(stream, i + 1,
                  [acc EXCEPT !.inventory_levels = Append(@, record)])
         ELSE ProcessBulkRecords_parent_first(stream, i + 1, acc)

\* _process_bulk_record folded over the stream: the variants dict (ids in
\* insertion order, last record per id) and the inventory-level records
RECURSIVE ProcessBulkRecords(_, _, _)
ProcessBulkRecords(stream, i, acc) ==
    IF i > Len(stream) THEN acc
    ELSE LET record == stream[i] IN
         IF ~record.valid THEN ProcessBulkRecords(stream, i + 1, acc)
         ELSE IF record.id # NoGid /\ record.parentId = NoGid
         THEN IF ContainsProductVariant(record.id)
              THEN ProcessBulkRecords(stream, i + 1,
                       [acc EXCEPT
                          !.variant_ids = IF record.id \in DOMAIN acc.variants
                                          THEN @ ELSE Append(@, record.id),
                          !.variants = Put(@, record.id, record),
                          !.products = IF record.product # ""
                                       THEN @ \cup {record.product} ELSE @])
              ELSE IF ContainsProduct(record.id)
              THEN ProcessBulkRecords(stream, i + 1,
                       [acc EXCEPT !.products = @ \cup {record.id.num}])
              ELSE ProcessBulkRecords(stream, i + 1, acc)
         ELSE IF record.parentId # NoGid
         THEN IF record.has_location /\ record.has_quantities
              THEN ProcessBulkRecords(stream, i + 1,
                       [acc EXCEPT !.inventory_levels = Append(@, record)])
              ELSE IF record.id # NoGid /\ ContainsProductVariant(record.id)
              THEN ProcessBulkRecords(stream, i + 1,
                       [acc EXCEPT
                          !.variant_ids = IF record.id \in DOMAIN acc.variants
                                          THEN @ ELSE Append(@, record.id),
                          !.variants = Put(@, record.id, record)])
              ELSE ProcessBulkRecords(stream, i + 1, acc)
         ELSE ProcessBulkRecords(stream, i + 1, acc)

\* country_inventory[f"{variant_id}-{country_code}"] after the levels loop
RECURSIVE CountryInventoryOf(_, _, _, _, _)
CountryInventoryOf(levels, i, active_countries, location_country_map, acc) ==
    IF i > Len(levels) THEN acc
    ELSE LET level == levels[i]
             location_id == level.location
             available_qty == level.available
             variant_id == level.parentId
             credited ==
                 IF location_id # "" /\ available_qty > 0
                    /\ location_id \in DOMAIN location_country_map
                 THEN location_country_map[location_id].countries \cap active_countries
                 ELSE {}
             keys == { <<variant_id, c>> : c \in credited }
         IN  CountryInventoryOf(levels, i + 1, active_countries, location_country_map,
                 [k \in (DOMAIN acc) \cup keys |->
                     (IF k \in DOMAIN acc THEN acc[k] ELSE 0)
                     + (IF k \in keys THEN available_qty ELSE 0)])

\* a row that reads 1 where country_inventory has no entry
_create_country_variant_from_bulk_default_one(variant_data, country_code, variant_gid, country_inventory) ==
    CountryVariant(variant_gid.num, country_code,
                   IF <<variant_gid, country_code>> \in DOMAIN country_inventory
                   THEN country_inventory[<<variant_gid, country_code>>] ELSE 1,
                   variant_data.sku, variant_data.product)

\* _create_country_variant_from_bulk
_create_country_variant_from_bulk(variant_data, country_code, variant_gid, country_inventory) ==
    CountryVariant(variant_gid.num, country_code,
                   IF <<variant_gid, country_code>> \in DOMAIN country_inventory
                   THEN country_inventory[<<variant_gid, country_code>>] ELSE 0,
                   variant_data.sku, variant_data.product)

\* a final loop without the SKU test
RECURSIVE FinalVariants_keep_no_sku(_, _, _, _, _)
FinalVariants_keep_no_sku(parsed, i, target_countries, active_countries, country_inventory) ==
    IF i > Len(parsed.variant_ids) THEN <<>>
    ELSE LET variant_id == parsed.variant_ids[i]
             variant_data == parsed.variants[variant_id]
             countries == SortedFrom(CountryOrder, target_countries \cap active_countries)
         IN  [j \in 1..Len(countries) |->
                 _create_country_variant_from_bulk(
                     variant_data, countries[j], variant_id, country_inventory)]
             \o FinalVariants_keep_no_sku(parsed, i + 1, target_countries,
                                          active_countries, country_inventory)

\* the rows of one variant: one per target country, in sorted country order
\* (the code walks a set), none when the SKU is missing
RECURSIVE FinalVariants(_, _, _, _, _)
FinalVariants(parsed, i, target_countries, active_countries, country_inventory) ==
    IF i > Len(parsed.variant_ids) THEN <<>>
    ELSE LET variant_id == parsed.variant_ids[i]
             variant_data == parsed.variants[variant_id]
             countries == SortedFrom(CountryOrder, target_countries \cap active_countries)
             rows == [j \in 1..Len(countries) |->
                         _create_country_variant_from_bulk(
                             variant_data, countries[j], variant_id, country_inventory)]
         IN  (IF variant_data.sku = "" THEN <<>> ELSE rows)
             \o FinalVariants(parsed, i + 1, target_countries, active_countries,
                              country_inventory)

\* a projection with one row per credited inventory level
_build_country_variants_from_bulk_per_level(parsed, active_countries, location_country_map) ==
    LET levels == parsed.inventory_levels
        RECURSIVE rows(_)
        rows(i) ==
            IF i > Len(levels) THEN <<>>
            ELSE LET level == levels[i]
                     served ==
                         IF level.available > 0 /\ level.location \in DOMAIN location_country_map
                            /\ level.parentId \in DOMAIN parsed.variants
                         THEN SortedFrom(CountryOrder,
                                  location_country_map[level.location].countries
                                  \cap active_countries)
                         ELSE <<>>
                 IN  [j \in 1..Len(served) |->
                         CountryVariant(level.parentId.num, served[j], level.available,
                                        parsed.variants[level.parentId].sku,
                                        parsed.variants[level.parentId].product)]
                     \o rows(i + 1)
    IN  rows(1)

\* a projection whose target countries are all the active ones
_build_country_variants_from_bulk_all_active(parsed, active_countries, location_country_map) ==
    FinalVariants(parsed, 1, active_countries, active_countries,
                  CountryInventoryOf(parsed.inventory_levels, 1, active_countries,
                                     location_country_map, EmptyMap))

_build_country_variants_from_bulk(parsed, active_countries, location_country_map) ==
    LET country_inventory ==
            CountryInventoryOf(parsed.inventory_levels, 1, active_countries,
                               location_country_map, EmptyMap)
        countries_with_inventory ==
            { k[2] : k \in { x \in DOMAIN country_inventory : country_inventory[x] > 0 } }
    IN  FinalVariants(parsed, 1, countries_with_inventory, active_countries,
                      country_inventory)

\* skipped_count when the final loop ends: one for each variant without SKU
\* and each target country that is active
RECURSIVE SkippedCount(_, _, _, _)
SkippedCount(parsed, i, target_countries, active_countries) ==
    IF i > Len(parsed.variant_ids) THEN 0
    ELSE (IF parsed.variants[parsed.variant_ids[i]].sku = ""
          THEN Cardinality(target_countries \cap active_countries) ELSE 0)
         + SkippedCount(parsed, i + 1, target_countries, active_countries)

\* the count the loader logs as "Skipped n variants with missing SKU"; a
\* load that returns before the projection logs none
skipped_count(stream, readable, active_countries, location_country_map) ==
    IF ~readable \/ Raises(stream) THEN 0
    ELSE LET parsed == ProcessBulkRecords(stream, 1,
                           [variant_ids |-> <<>>, variants |-> EmptyMap, products |-> {},
                            inventory_levels |-> <<>>])
             country_inventory ==
                 CountryInventoryOf(parsed.inventory_levels, 1, active_countries,
                                    location_country_map, EmptyMap)
             countries_with_inventory ==
                 { k[2] : k \in { x \in DOMAIN country_inventory : country_inventory[x] > 0 } }
         IN  SkippedCount(parsed, 1, countries_with_inventory, active_countries)

\* readable = the JSONL file exists and can be opened
load_products_from_bulk_jsonl(stream, readable, active_countries, location_country_map) ==
    IF ~readable \/ Raises(stream) THEN <<>>
    ELSE _build_country_variants_from_bulk(
             ProcessBulkRecords(stream, 1,
                 [variant_ids |-> <<>>, variants |-> EmptyMap, products |-> {},
                  inventory_levels |-> <<>>]),
             active_countries, location_country_map)

-----------------------------------------------------------------------------
(* CSVExporter *)

\* settings.ENABLE_DATA_VALIDATION, "true" unless the environment says otherwise
ENABLE_DATA_VALIDATION == TRUE

\* re.match(r'^[A-Z]{2}$', country_code)
IsCountryCode(country_code) == country_code \in Countries

\* composite_id.rsplit("-", 1)[0]
_extract_shopify_variant_id(variant) ==
    IF variant.id = NoId THEN "" ELSE variant.id[1]

_validate_variant_data(variant) ==
    IF ~ENABLE_DATA_VALIDATION THEN TRUE
    ELSE /\ variant.id # NoId
         /\ variant.country_code # ""
         /\ _safe_int(variant.inventory_quantity) >= 0
         /\ IsCountryCode(variant.country_code)

Row(variant_id, country_code, availability) ==
    [id |-> variant_id, override |-> country_code, availability |-> availability]

\* rows for the variants in stock only
RECURSIVE FormatRows_in_stock_only(_, _)
FormatRows_in_stock_only(variants, country_code) ==
    IF variants = <<>> THEN <<>>
    ELSE LET variant == Head(variants)
             variant_id == _extract_shopify_variant_id(variant)
         IN  (IF _validate_variant_data(variant) /\ variant_id # ""
                 /\ StockStatusOf(variant) = IN_STOCK
              THEN <<Row(variant_id, country_code, IN_STOCK)>>
              ELSE <<>>)
             \o FormatRows_in_stock_only(Tail(variants), country_code)

\* the rows a list of variants contributes to one file: validated, with an id
RECURSIVE FormatRows(_, _)
FormatRows(variants, country_code) ==
    IF variants = <<>> THEN <<>>
    ELSE LET variant == Head(variants)
             variant_id == _extract_shopify_variant_id(variant)
         IN  (IF _validate_variant_data(variant) /\ variant_id # ""
              THEN <<Row(variant_id, country_code, StockStatusOf(variant))>>
              ELSE <<>>)
             \o FormatRows(Tail(variants), country_code)

SeqRange(q) == { q[i] : i \in 1..Len(q) }

\* _get_current_countries and _get_countries_to_update
_get_current_countries(variants) ==
    { v.country_code : v \in { x \in SeqRange(variants) :
          x.country_code # "" /\ x.product_id # "" /\ _validate_variant_data(x) } }

\* _create_country_variant_generator
CountryVariantsOf(variants, country_code) ==
    SelectSeq(variants, LAMBDA v : v.country_code = country_code /\ v.product_id # "")

\* a full export that leaves the files of other countries where they are
create_country_feeds_full_no_cleanup(files, variants) ==
    IF variants = <<>> THEN [files |-> files, created |-> {}]
    ELSE LET current_countries == _get_current_countries(variants)
         IN  [files |-> [c \in (DOMAIN files) \cup current_countries |->
                            IF c \in current_countries
                            THEN FormatRows(CountryVariantsOf(variants, c), c)
                            ELSE files[c]],
              created |-> current_countries]

\* create_country_feeds_full: orphan cleanup, then one file per current country
create_country_feeds_full(files, variants) ==
    IF variants = <<>> THEN [files |-> files, created |-> {}]
    ELSE LET current_countries == _get_current_countries(variants)
         IN  [files |-> [c \in current_countries |->
                            FormatRows(CountryVariantsOf(variants, c), c)],
              created |-> current_countries]

\* change_lookup of _update_country_feed_streaming: last changed variant per id
ChangeLookup(country_changed_variants) ==
    LET ids == { _extract_shopify_variant_id(v) : v \in SeqRange(country_changed_variants) }
                 \ {""}
        last(id) == CHOOSE i \in 1..Len(country_changed_variants) :
                       /\ _extract_shopify_variant_id(country_changed_variants[i]) = id
                       /\ \A j \in (i + 1)..Len(country_changed_variants) :
                              _extract_shopify_variant_id(country_changed_variants[j]) # id
    IN  [id \in ids |-> StockStatusOf(country_changed_variants[last(id)])]

\* an update that copies the existing rows as they are
_update_country_feed_streaming_copy_only(files, new_variants, changed_variants, country_code) ==
    LET country_new_variants ==
            SelectSeq(new_variants, LAMBDA v : v.country_code = country_code)
        existing == IF country_code \in DOMAIN files THEN files[country_code] ELSE <<>>
    IN  Put(files, country_code, existing \o FormatRows(country_new_variants, country_code))

\* the new content of one country's file
_update_country_feed_streaming(files, new_variants, changed_variants, country_code) ==
    LET country_new_variants ==
            SelectSeq(new_variants, LAMBDA v : v.country_code = country_code)
        country_changed_variants ==
            SelectSeq(changed_variants, LAMBDA v : v.country_code = country_code)
        change_lookup == ChangeLookup(country_changed_variants)
        existing == IF country_code \in DOMAIN files
                    THEN SelectSeq(files[country_code],
                                   LAMBDA row : row.override = country_code)
                    ELSE <<>>
        copied == [j \in 1..Len(existing) |->
                      IF existing[j].id \in DOMAIN change_lookup
                      THEN Row(existing[j].id, country_code, change_lookup[existing[j].id])
                      ELSE Row(existing[j].id, country_code, existing[j].availability)]
    IN  IF country_new_variants = <<>> /\ country_changed_variants = <<>>
        THEN files
        ELSE Put(files, country_code,
                 copied \o FormatRows(country_new_variants, country_code))

RECURSIVE UpdateEachCountry(_, _, _, _)
UpdateEachCountry(files, new_variants, changed_variants, countries) ==
    IF countries = <<>> THEN files
    ELSE UpdateEachCountry(
             _update_country_feed_streaming(files, new_variants, changed_variants,
                                            Head(countries)),
             new_variants, changed_variants, Tail(countries))

\* an update that keeps the updated files only
update_country_feeds_incremental_only_updated(files, new_variants, changed_variants) ==
    LET countries_to_update == _get_current_countries(new_variants \o changed_variants)
        updated == UpdateEachCountry(files, new_variants, changed_variants,
                                     SortedFrom(CountryOrder, countries_to_update))
    IN  [files |-> [c \in countries_to_update |-> updated[c]],
         created |-> countries_to_update]

update_country_feeds_incremental(files, new_variants, changed_variants) ==
    IF new_variants = <<>> /\ changed_variants = <<>>
    THEN [files |-> files, created |-> {}]
    ELSE LET countries_to_update == _get_current_countries(new_variants \o changed_variants)
         IN  [files |-> UpdateEachCountry(files, new_variants, changed_variants,
                            SortedFrom(CountryOrder, countries_to_update)),
              created |-> countries_to_update]

-----------------------------------------------------------------------------
(* TSVExporter (google deployment) *)

\* f"shopify_US_{product_id}_{base_id}"
GoogleId(variant) ==
    <<"shopify_US", variant.product_id, _extract_shopify_variant_id(variant)>>

GoogleRow(composite_id, availability) ==
    [id |-> composite_id, availability |-> availability]

\* existing_rows[composite_id] = availability on a dict kept in insertion
\* order: an id already there keeps its place
Upsert(rows, composite_id, availability) ==
    IF \E i \in DOMAIN rows : rows[i].id = composite_id
    THEN [i \in DOMAIN rows |->
             IF rows[i].id = composite_id
             THEN GoogleRow(composite_id, availability) ELSE rows[i]]
    ELSE Append(rows, GoogleRow(composite_id, availability))

\* _load_existing_rows: the rows of the file as a dict
RECURSIVE _load_existing_rows(_, _)
_load_existing_rows(file_rows, acc) ==
    IF file_rows = <<>> THEN acc
    ELSE _load_existing_rows(Tail(file_rows),
                             Upsert(acc, Head(file_rows).id, Head(file_rows).availability))

\* the rows of create_country_feeds_full for one country's variants
RECURSIVE GoogleRows(_)
GoogleRows(country_variants) ==
    IF country_variants = <<>> THEN <<>>
    ELSE LET variant == Head(country_variants)
         IN  (IF _validate_variant_data(variant)
              THEN <<GoogleRow(GoogleId(variant), StockStatusOf(variant))>>
              ELSE <<>>)
             \o GoogleRows(Tail(country_variants))

\* _organize_variants_by_country: the countries that get a file
_organize_variants_by_country(variants) ==
    { v.country_code : v \in { x \in SeqRange(variants) :
          x.country_code # "" /\ x.product_id # "" } }

\* create_country_feeds_full: orphan cleanup against the validated countries,
\* then one file per organized country
create_country_feeds_full_google(files, variants) ==
    IF variants = <<>> THEN [files |-> files, created |-> {}]
    ELSE LET current_countries == _get_current_countries(variants)
             organized == _organize_variants_by_country(variants)
         IN  [files |-> [c \in ((DOMAIN files) \cap current_countries) \cup organized |->
                            IF c \in organized
                            THEN GoogleRows(CountryVariantsOf(variants, c))
                            ELSE files[c]],
              created |-> organized]

\* _apply_variant_changes
RECURSIVE _apply_variant_changes(_, _, _)
_apply_variant_changes(existing_rows, variants, country_code) ==
    IF variants = <<>> THEN existing_rows
    ELSE LET variant == Head(variants)
         IN  _apply_variant_changes(
                 IF variant.country_code = country_code /\ _validate_variant_data(variant)
                 THEN Upsert(existing_rows, GoogleId(variant), StockStatusOf(variant))
                 ELSE existing_rows,
                 Tail(variants), country_code)

RECURSIVE UpdateEachCountryGoogle(_, _, _, _)
UpdateEachCountryGoogle(files, new_variants, changed_variants, countries) ==
    IF countries = <<>> THEN files
    ELSE LET country_code == Head(countries)
             existing_rows == IF country_code \in DOMAIN files
                              THEN _load_existing_rows(files[country_code], <<>>)
                              ELSE <<>>
         IN  UpdateEachCountryGoogle(
                 Put(files, country_code,
                     _apply_variant_changes(existing_rows,
                                            changed_variants \o new_variants, country_code)),
                 new_variants, changed_variants, Tail(countries))

update_country_feeds_incremental_google(files, new_variants, changed_variants) ==
    IF new_variants = <<>> /\ changed_variants = <<>>
    THEN [files |-> files, created |-> {}]
    ELSE LET countries_to_update == _get_current_countries(new_variants \o changed_variants)
         IN  [files |-> UpdateEachCountryGoogle(files, new_variants, changed_variants,
                            SortedFrom(CountryOrder, countries_to_update)),
              created |-> countries_to_update]

-----------------------------------------------------------------------------
(* BulkOperationsHandler and the remote shop, as one sync run sees them *)

VariantOrder == <<"V1", "V2">>
Sku(v) == IF v = "V1" THEN "S1" ELSE "S2"
ProductOf(v) == "P1"

\* how one execute_bulk_query call ends
BULK_OK == "ok"
\* the job completed without a result URL: execute_bulk_query returns None
BULK_NO_RESULT == "no_result"
BULK_USER_ERRORS == "user_errors"
BULK_FAILED == "FAILED"
BULK_CANCELED == "CANCELED"
BULK_DOWNLOAD_FAILED == "download_failed"
BulkFailures == {BULK_USER_ERRORS, BULK_FAILED, BULK_CANCELED, BULK_DOWNLOAD_FAILED}
\* the failures the remote side reports: a rejected submission, a job that
\* ends FAILED or CANCELED
RemoteBulkFailures == {BULK_USER_ERRORS, BULK_FAILED, BULK_CANCELED}

\* BulkOperationStatus as the API spells it, and status.lower()
BulkStatuses == {"CREATED", "RUNNING", "COMPLETED", "FAILED", "CANCELING", "CANCELED",
                 "EXPIRED"}
TerminalStatuses == {"COMPLETED", "FAILED", "CANCELED", "EXPIRED"}

Lower(status) ==
    CASE status = "CREATED" -> "created"
      [] status = "RUNNING" -> "running"
      [] status = "COMPLETED" -> "completed"
      [] status = "FAILED" -> "failed"
      [] status = "CANCELING" -> "canceling"
      [] status = "CANCELED" -> "canceled"
      [] status = "EXPIRED" -> "expired"
      [] OTHER -> status

\* time.sleep(10) before the first poll and time.sleep(30) between polls,
\* in units of 10 s
InitialDelay == 1
PollInterval == 3

\* currentBulkOperation: url is whether the job has a result URL
Job(status, errorCode, url) == [status |-> status, errorCode |-> errorCode, url |-> url]
NoJob == Job("", "", FALSE)

ErrorCodes == {"ACCESS_DENIED", "TIMEOUT"}

\* the handler between two calls, no job submitted yet
NoBulk ==
    [call |-> "", pc |-> "idle", submissions |-> 0, downloads |-> 0,
     statuses |-> <<>>, poll_times |-> <<>>, clock |-> 0,
     returned |-> NoJob, result |-> "", error |-> "", error_code |-> "",
     jobs |-> <<>>]

\* execute_bulk_query after the mutation's answer
SubmitOutcome_ignore_user_errors(answer) ==
    IF answer = "graphql_errors" THEN "raised" ELSE "sleep"

SubmitOutcome(answer) ==
    IF answer \in {"graphql_errors", "user_errors"} THEN "raised" ELSE "sleep"

\* _poll_bulk_operation after one poll
PollOutcome_return_any_end(status) ==
    IF Lower(status) \in {"running", "created"} THEN "wait" ELSE "return"

PollOutcome(status) ==
    IF Lower(status) \in {"running", "created"} THEN "wait"
    ELSE IF Lower(status) = "completed" THEN "return"
    ELSE "raise"

\* _build_fresh_mapping calls get_locations; _get_shopify_data, which calls
\* get_products_variants_inventory_bulk, runs after the mapping is built,
\* and the mapping is built only from a locations file
MayCall_products_at_once(b, call) ==
    \/ b.call = "" /\ call = "locations"
    \/ b.call = "locations" /\ b.pc \in {"wait", "returned"} /\ call = "products"

MayCall(b, call) ==
    \/ b.pc = "idle" /\ call = "locations"
    \/ b.call = "locations" /\ b.pc = "returned" /\ b.result = "file" /\ call = "products"

\* the JSONL lines of the productVariants export for the variants in `updated`:
\* each variant followed by its inventory levels
RECURSIVE LevelLines(_, _, _)
LevelLines(v, order, inv) ==
    IF order = <<>> THEN <<>>
    ELSE (IF <<v, Head(order)>> \in DOMAIN inv
          THEN <<LevelLine(v, Head(order), inv[<<v, Head(order)>>])>> ELSE <<>>)
         \o LevelLines(v, Tail(order), inv)

RECURSIVE ExportLines(_, _, _)
ExportLines(order, updated, inv) ==
    IF order = <<>> THEN <<>>
    ELSE (IF Head(order) \in updated
          THEN <<VariantLine(Head(order), Sku(Head(order)), ProductOf(Head(order)))>>
               \o LevelLines(Head(order), LocationOrder, inv)
          ELSE <<>>)
         \o ExportLines(Tail(order), updated, inv)

-----------------------------------------------------------------------------
(* SyncOrchestrator *)

\* timedelta(seconds=5), one unit of the clock
TimeDelta == 1

NoneSync == <<>>

FULL == "FULL"
INCREMENTAL == "INCREMENTAL"

\* a strategy that never looks whether a checkpoint exists
_determine_smart_sync_strategy_no_check(mapping_changed, last_sync) ==
    IF mapping_changed THEN [sync_type |-> FULL, since_timestamp |-> NoneSync]
    ELSE [sync_type |-> INCREMENTAL, since_timestamp |-> last_sync]

\* _determine_smart_sync_strategy
_determine_smart_sync_strategy(mapping_changed, last_sync) ==
    IF mapping_changed THEN [sync_type |-> FULL, since_timestamp |-> NoneSync]
    ELSE IF last_sync = NoneSync THEN [sync_type |-> FULL, since_timestamp |-> NoneSync]
    ELSE [sync_type |-> INCREMENTAL, since_timestamp |-> last_sync]

\* get_mapping_with_change_detection once the fresh mapping is built:
\* the verdict and the content of mapping_comparison.json afterwards
get_mapping_with_change_detection(enabled, previous_hash, current_hash) ==
    IF ~enabled
    THEN [has_changed |-> FALSE, reason |-> REASON_DISABLED, saved |-> previous_hash]
    ELSE LET verdict == CompareHash(previous_hash, current_hash)
         IN  [has_changed |-> verdict.has_changed, reason |-> verdict.reason,
              saved |-> current_hash]

NoDetect == [active_countries |-> {}, known_locations |-> {}, mapped_locations |-> {},
             delivery_relationships |-> EmptyMap, mapping_hash |-> NoHash]

IdleRun ==
    [cmd |-> "", sync_timestamp |-> 0,
     active_countries |-> {}, location_country_map |-> EmptyMap, mapping_hash |-> NoHash,
     detected |-> FALSE, mapping_changed |-> FALSE, change_reason |-> "",
     previous_hash |-> NoHash, prev_detect |-> NoDetect, changed_since |-> {},
     known_locations |-> {}, delivery_relationships |-> EmptyMap,
     sync_type |-> "", since_timestamp |-> NoneSync, last_sync |-> NoneSync,
     export |-> "", exported |-> {}, variants |-> <<>>, new_variants |-> <<>>, changed_variants |-> <<>>,
     committed |-> FALSE, feeds |-> "", created_files |-> {}, outcome |-> "", failure |-> ""]

Persisted ==
    [sync_state |-> sync_state, variant_states |-> variant_states,
     mapping_hash_file |-> mapping_hash_file, feed_files |-> feed_files]

Commands == {"smart", "full", "incremental"}

InRun == {"config", "mapping", "shopify", "process", "commit", "upload"}

InitRun ==
    /\ pc = "idle"
    /\ run = IdleRun
    /\ runs = 0
    /\ env_changes = 0
    /\ last_detect = NoDetect
    /\ changed_since = {}
    /\ snap = [sync_state |-> NoneSync, variant_states |-> EmptyMap,
               mapping_hash_file |-> NoHash, feed_files |-> EmptyMap]

\* the first-ever run finds no file; the shop has two active locations
Init ==
    /\ variant_states = EmptyMap
    /\ sync_state = NoneSync
    /\ mapping_hash_file = NoHash
    /\ feed_files = EmptyMap
    /\ now = 1
    /\ SMART_MAPPING_ENABLED \in BOOLEAN
    /\ markets \in {{"US"}, {"US", "CA"}}
    /\ shop_locations = [l \in Locations |->
                       [country_code |-> IF l = "L1" THEN "US" ELSE "CA",
                        is_active |-> TRUE]]
    /\ delivery \in {EmptyMap, [l \in {"L2"} |-> {"US"}]}
    /\ inventory \in [Variants \X Locations -> 0..MaxQty]
    /\ InitRun
    /\ store_input = <<>>
    /\ store_op = [op |-> "none"]
    /\ bulk = NoBulk

Abort(outcome, failure) ==
    /\ pc' = "aborted"
    /\ run' = [run EXCEPT !.outcome = outcome, !.failure = failure]

\* main() dispatching run_smart, run_full or run_incremental, up to the try
StartRun(cmd) ==
    /\ pc \in {"idle", "done", "aborted"}
    /\ runs < MaxRuns
    /\ runs' = runs + 1
    /\ now' = now + 2
    /\ run' = [IdleRun EXCEPT !.cmd = cmd, !.sync_timestamp = now' - TimeDelta]
    /\ snap' = Persisted
    /\ pc' = "config"
    /\ UNCHANGED <<persistVars, envVars, ghostVars, SMART_MAPPING_ENABLED, env_changes,
                   store_input, store_op, bulk>>

\* _validate_configuration: configuration errors raise, connectivity errors warn
ValidateConfiguration ==
    /\ pc = "config"
    /\ \E config_ok \in BOOLEAN :
          IF config_ok
          THEN pc' = "mapping" /\ UNCHANGED run
          ELSE Abort("raised", "config")
    /\ UNCHANGED <<persistVars, envVars, ghostVars, now, SMART_MAPPING_ENABLED, snap, runs,
                   env_changes, store_input, store_op, bulk>>

\* _detect_mapping_changes and _determine_smart_sync_strategy (run_full takes
\* the mapping and goes FULL). The locations export is a bulk job: when it is
\* rejected, fails or cannot be downloaded _build_fresh_mapping raises
\* before anything is compared or saved; when it completes without a result
\* URL _parse_locations_from_jsonl opens None, which raises TypeError.
DetectMapping ==
    /\ pc = "mapping"
    /\ \E response \in {BULK_OK, BULK_NO_RESULT} \cup BulkFailures, delivery_ok \in BOOLEAN :
          IF response # BULK_OK
          THEN /\ Abort("raised", response)
               /\ UNCHANGED <<mapping_hash_file, ghostVars>>
          ELSE LET delivery_relationships == IF delivery_ok THEN delivery ELSE EmptyMap
                   fresh_mapping ==
                       BuildMapping(markets, shop_locations, delivery_relationships)
                   got == get_mapping_with_change_detection(
                              SMART_MAPPING_ENABLED, mapping_hash_file,
                              fresh_mapping.mapping_hash)
                   strategy ==
                       IF run.cmd = "full"
                       THEN [sync_type |-> FULL, since_timestamp |-> NoneSync]
                       ELSE _determine_smart_sync_strategy(got.has_changed, sync_state)
                   this == [active_countries |-> fresh_mapping.active_countries,
                            known_locations |-> DOMAIN shop_locations,
                            mapped_locations |-> DOMAIN fresh_mapping.location_country_map,
                            delivery_relationships |-> delivery_relationships,
                            mapping_hash |-> fresh_mapping.mapping_hash]
               IN  /\ mapping_hash_file' = got.saved
                   /\ run' = [run EXCEPT
                                !.active_countries = fresh_mapping.active_countries,
                                !.location_country_map = fresh_mapping.location_country_map,
                                !.mapping_hash = fresh_mapping.mapping_hash,
                                !.known_locations = DOMAIN shop_locations,
                                !.delivery_relationships = delivery_relationships,
                                !.detected = TRUE,
                                !.mapping_changed = got.has_changed,
                                !.change_reason = got.reason,
                                !.previous_hash = mapping_hash_file,
                                !.prev_detect = last_detect,
                                !.changed_since = changed_since,
                                !.last_sync = sync_state,
                                !.sync_type = strategy.sync_type,
                                !.since_timestamp = strategy.since_timestamp]
                   /\ IF SMART_MAPPING_ENABLED
                      THEN last_detect' = this /\ changed_since' = {}
                      ELSE UNCHANGED ghostVars
                   /\ pc' = "shopify"
    /\ UNCHANGED <<variant_states, sync_state, feed_files, envVars, now,
                   SMART_MAPPING_ENABLED, snap, runs, env_changes, store_input, store_op, bulk>>

\* _get_shopify_data and the "if not variants" that follows it. An
\* INCREMENTAL export holds the variants updated since the checkpoint, which
\* the remote side decides; no matching record means no result URL.
FetchProducts ==
    /\ pc = "shopify"
    /\ \E response \in {BULK_OK} \cup BulkFailures, readable \in BOOLEAN,
          updated \in (IF run.since_timestamp = NoneSync THEN {Variants}
                       ELSE SUBSET Variants) :
          IF response # BULK_OK
          THEN Abort("raised", response) /\ UNCHANGED sync_state
          ELSE LET stream == ExportLines(VariantOrder, updated, inventory)
                   export == IF stream = <<>> THEN "no_result"
                             ELSE IF readable THEN "read" ELSE "unreadable"
                   variants ==
                       IF stream = <<>> THEN <<>>
                       ELSE load_products_from_bulk_jsonl(
                                stream, readable, run.active_countries,
                                run.location_country_map)
               IN  IF variants = <<>>
                   THEN /\ pc' = "done"
                        /\ run' = [run EXCEPT !.export = export, !.exported = updated,
                                              !.outcome = "no_data"]
                        /\ sync_state' = IF run.cmd = "full" THEN sync_state
                                         ELSE <<run.sync_timestamp>>
                   ELSE /\ pc' = "process"
                        /\ run' = [run EXCEPT !.export = export, !.exported = updated,
                                              !.variants = variants]
                        /\ UNCHANGED sync_state
    /\ UNCHANGED <<variant_states, mapping_hash_file, feed_files, envVars, ghostVars, now,
                   SMART_MAPPING_ENABLED, snap, runs, env_changes, store_input, store_op, bulk>>

\* _process_variants up to the feed files: FULL rewrites them, INCREMENTAL
\* diffs against the persisted states and returns early when nothing differs
WriteFeeds ==
    /\ pc = "process"
    /\ IF run.sync_type = FULL
       THEN LET r == create_country_feeds_full(feed_files, run.variants)
            IN  /\ feed_files' = r.files
                /\ run' = [run EXCEPT !.created_files = r.created, !.feeds = "written"]
                /\ pc' = "commit"
       ELSE LET d == detect_stock_changes(variant_states, run.variants)
                r == update_country_feeds_incremental(feed_files, d.new, d.changed)
            IN  IF d.new = <<>> /\ d.changed = <<>>
                THEN /\ run' = [run EXCEPT !.feeds = "skipped"]
                     /\ pc' = "upload"
                     /\ UNCHANGED feed_files
                ELSE /\ feed_files' = r.files
                     /\ run' = [run EXCEPT !.new_variants = d.new,
                                           !.changed_variants = d.changed,
                                           !.created_files = r.created,
                                           !.feeds = "written"]
                     /\ pc' = "commit"
    /\ UNCHANGED <<variant_states, sync_state, mapping_hash_file, envVars, ghostVars, now,
                   SMART_MAPPING_ENABLED, snap, runs, env_changes, store_input, store_op, bulk>>

\* the rest of _process_variants: reset (FULL only) and update_variant_states
CommitStates ==
    /\ pc = "commit"
    /\ variant_states' =
          IF run.sync_type = FULL
          THEN update_variant_states(reset_variant_states(variant_states),
                                     run.variants, now)
          ELSE update_variant_states(variant_states, run.variants, now)
    /\ run' = [run EXCEPT !.committed = TRUE]
    /\ pc' = "upload"
    /\ UNCHANGED <<sync_state, mapping_hash_file, feed_files, envVars, ghostVars, now,
                   SMART_MAPPING_ENABLED, snap, runs, env_changes, store_input, store_op, bulk>>

\* the upload (which catches its own errors) and save_sync_state
FinishRun ==
    /\ pc = "upload"
    /\ sync_state' = <<run.sync_timestamp>>
    /\ run' = [run EXCEPT !.outcome = "completed"]
    /\ pc' = "done"
    /\ UNCHANGED <<variant_states, mapping_hash_file, feed_files, envVars, ghostVars, now,
                   SMART_MAPPING_ENABLED, snap, runs, env_changes, store_input, store_op, bulk>>

\* KeyboardInterrupt anywhere in the run: main exits 130
Interrupt ==
    /\ pc \in InRun
    /\ Abort("interrupted", "")
    /\ UNCHANGED <<persistVars, envVars, ghostVars, now, SMART_MAPPING_ENABLED, snap, runs,
                   env_changes, store_input, store_op, bulk>>

\* the shop changes between two commands
EnvIdle ==
    /\ pc \in {"idle", "done", "aborted"}
    /\ runs < MaxRuns
    /\ env_changes < MaxEnvChanges
    /\ env_changes' = env_changes + 1

EnvSetQuantity(v, l, qty) ==
    /\ EnvIdle
    /\ inventory[<<v, l>>] # qty
    /\ inventory' = [inventory EXCEPT ![<<v, l>>] = qty]
    /\ changed_since' = changed_since \cup {"quantities"}
    /\ UNCHANGED <<persistVars, markets, shop_locations, delivery, last_detect, now,
                   SMART_MAPPING_ENABLED, runVars, store_input, store_op, bulk>>

EnvSetMarkets(codes) ==
    /\ EnvIdle
    /\ markets # codes
    /\ markets' = codes
    /\ changed_since' = changed_since \cup {"markets"}
    /\ UNCHANGED <<persistVars, shop_locations, delivery, inventory, last_detect, now,
                   SMART_MAPPING_ENABLED, runVars, store_input, store_op, bulk>>

Next ==
    \/ \E cmd \in Commands : StartRun(cmd)
    \/ ValidateConfiguration
    \/ DetectMapping
    \/ FetchProducts
    \/ WriteFeeds
    \/ CommitStates
    \/ FinishRun
    \/ Interrupt
    \/ \E v \in Variants, l \in Locations, qty \in 0..MaxQty : EnvSetQuantity(v, l, qty)
    \/ \E codes \in SUBSET Countries : EnvSetMarkets(codes)

Spec == Init /\ [][Next]_vars

\* the run took run_smart or run_incremental and has chosen its strategy
SmartDecided == run.cmd \in {"smart", "incremental"} /\ run.sync_type # ""

FirstEverRun ==
    snap = [sync_state |-> NoneSync, variant_states |-> EmptyMap,
            mapping_hash_file |-> NoHash, feed_files |-> EmptyMap]

\* C1: a smart sync run selects FULL, with no time filter, whenever the
\* mapping is reported changed or no checkpoint is persisted, and selects
\* INCREMENTAL, filtered to the persisted checkpoint, only when the mapping
\* is unchanged and a checkpoint exists; the first-ever run selects FULL and
\* run_incremental without a checkpoint never goes INCREMENTAL.
C1_strategy_selection ==
    SmartDecided =>
        /\ (run.mapping_changed \/ snap.sync_state = NoneSync)
              => (run.sync_type = FULL /\ run.since_timestamp = NoneSync)
        /\ run.sync_type = INCREMENTAL
              => /\ ~run.mapping_changed
                 /\ snap.sync_state # NoneSync
                 /\ run.since_timestamp = snap.sync_state
        /\ run.sync_type \in {FULL, INCREMENTAL}
        /\ FirstEverRun => run.sync_type = FULL
        /\ (run.cmd = "incremental" /\ snap.sync_state = NoneSync)
              => run.sync_type # INCREMENTAL

\* run_incremental going INCREMENTAL from a persisted checkpoint
C1_witness ==
    /\ SmartDecided
    /\ run.cmd = "incremental"
    /\ run.sync_type = INCREMENTAL
    /\ run.since_timestamp = snap.sync_state

\* C2: the checkpoint is written only by a run that completed without a
\* fatal error, after its feed files were written or the write was skipped
\* because nothing was new; a run that is interrupted, that raised or whose
\* export could not be read never advances the checkpoint.
C2_checkpoint_only_after_completion ==
    sync_state # snap.sync_state =>
        /\ pc = "done"
        /\ run.export # "unreadable"
        /\ \/ run.outcome = "completed" /\ run.feeds \in {"written", "skipped"}
           \/ run.outcome = "no_data" /\ run.export \in {"no_result", "read"}

\* the export could not be read and the checkpoint has moved
C2_unreadable_export_advances_checkpoint ==
    /\ pc = "done"
    /\ run.export = "unreadable"
    /\ sync_state = <<run.sync_timestamp>>
    /\ sync_state # snap.sync_state

\* C3: when a bulk submission is rejected or a bulk job ends FAILED or
\* CANCELED, in the location export or in the product export, the run aborts
\* and the checkpoint, the variant states, the stored fingerprint and the
\* feed files are what they were before the run.
C3_bulk_failure_persists_nothing ==
    (run.failure \in RemoteBulkFailures) => (pc = "aborted" /\ Persisted = snap)

\* the product export failed and the stored fingerprint has moved
C3_product_export_failure_keeps_new_fingerprint ==
    /\ pc = "aborted"
    /\ run.failure \in RemoteBulkFailures
    /\ run.detected
    /\ mapping_hash_file # snap.mapping_hash_file
    /\ sync_state = snap.sync_state

Observed(k) == \E i \in DOMAIN run.variants : run.variants[i].id = k

\* C12: a bulk job that ends COMPLETED without a result URL is a valid
\* outcome with zero records: the product export fetch and the location
\* export fetch of the mapping build both go on with an empty record set,
\* the run does not fail.
C12_no_result_is_no_error ==
    /\ run.failure # BULK_NO_RESULT
    /\ run.export = "no_result" => (run.outcome = "no_data" /\ pc = "done")

\* the location export had no result URL and the run is aborted
C12_locations_without_result_abort ==
    /\ pc = "aborted"
    /\ run.outcome = "raised"
    /\ run.failure = BULK_NO_RESULT
    /\ ~run.detected
    /\ Persisted = snap

\* C6: committing changes only the entries of the keys in its input: a
\* persisted key the run did not observe keeps its availability and its
\* timestamp and stays; persisted entries are removed only by the reset,
\* which only a FULL sync invokes.
C6_commit_frame ==
    [][\A k \in DOMAIN variant_states :
          /\ (k \notin DOMAIN variant_states') => run.sync_type = FULL
          /\ (~Observed(k) /\ run.sync_type # FULL)
                => (k \in DOMAIN variant_states' /\ variant_states'[k] = variant_states[k])
      ]_vars

\* an INCREMENTAL run has committed and a key it did not observe is persisted
C6_witness ==
    /\ run.sync_type = INCREMENTAL
    /\ run.committed
    /\ \E k \in DOMAIN variant_states : ~Observed(k)

\* the keys the run observed are persisted with their current availability
ObservedPersisted ==
    \A i \in DOMAIN run.variants :
        /\ run.variants[i].id \in DOMAIN variant_states
        /\ variant_states[run.variants[i].id].stock_status
             = (IF run.variants[i].inventory_quantity > 0 THEN IN_STOCK ELSE OUT_OF_STOCK)

\* ... with a timestamp of this run
ObservedFresh ==
    \A i \in DOMAIN run.variants :
        /\ run.variants[i].id \in DOMAIN variant_states
        /\ variant_states[run.variants[i].id].last_updated > run.sync_timestamp

Completed == pc = "done" /\ run.outcome = "completed"

\* C7: every run, FULL or INCREMENTAL, that observes a key and completes
\* persists the key's current availability with a fresh timestamp.
C7_every_run_refreshes ==
    Completed => (ObservedPersisted /\ ObservedFresh)

\* C7 as the code has it: a completed run that wrote feeds (every FULL run
\* and an INCREMENTAL run with a new or changed key) persists every observed
\* key's availability with a fresh timestamp; an INCREMENTAL run in which no
\* observed key is new or changed leaves the variant states as they were,
\* the availability they hold being the current one.
C7_refresh_unless_nothing_changed ==
    Completed =>
        /\ ObservedPersisted
        /\ run.feeds = "written" => (run.committed /\ ObservedFresh)
        /\ run.sync_type = FULL => run.feeds = "written"
        /\ run.feeds = "skipped" => variant_states = snap.variant_states

\* an INCREMENTAL run with a changed key has completed
C7_witness ==
    /\ Completed
    /\ run.sync_type = INCREMENTAL
    /\ run.feeds = "written"
    /\ run.changed_variants # <<>>

\* a run made the comparison with smart mapping enabled
Compared == run.detected /\ SMART_MAPPING_ENABLED

\* C8: with smart mapping enabled, get_mapping_with_change_detection reports
\* changed with the first-run reason when no fingerprint is persisted,
\* changed with a distinct mismatch reason when the persisted fingerprint
\* differs from the current one, unchanged when they are equal; afterwards
\* the persisted fingerprint is the current one.
C8_change_detection ==
    Compared =>
        /\ snap.mapping_hash_file = NoHash
              => (run.mapping_changed /\ run.change_reason = REASON_FIRST_RUN)
        /\ (snap.mapping_hash_file # NoHash /\ snap.mapping_hash_file # run.mapping_hash)
              => (run.mapping_changed /\ run.change_reason = REASON_MISMATCH)
        /\ snap.mapping_hash_file = run.mapping_hash => ~run.mapping_changed
        /\ REASON_MISMATCH # REASON_FIRST_RUN
        /\ mapping_hash_file = run.mapping_hash

\* a comparison that met a different persisted fingerprint
C8_witness ==
    /\ Compared
    /\ snap.mapping_hash_file # NoHash
    /\ snap.mapping_hash_file # run.mapping_hash
    /\ run.change_reason = REASON_MISMATCH

\* the run compared against the fingerprint of an earlier build
ComparedWithEarlier == Compared /\ run.prev_detect # NoDetect

restOfStore == <<sync_state, mapping_hash_file, feed_files, SMART_MAPPING_ENABLED,
                 markets, shop_locations, delivery, inventory, pc, run, snap, runs,
                 env_changes, last_detect, changed_since, bulk>>

InitRest ==
    /\ sync_state = NoneSync
    /\ mapping_hash_file = NoHash
    /\ feed_files = EmptyMap
    /\ SMART_MAPPING_ENABLED = TRUE
    /\ markets = {}
    /\ shop_locations = EmptyMap
    /\ delivery = EmptyMap
    /\ inventory = EmptyMap
    /\ bulk = NoBulk
    /\ InitRun

\* C26: a FULL sync run whose export yields no CountryVariant leaves no
\* country feed file behind
C26_empty_full_run_deletes_feeds ==
    (pc = "done" /\ run.sync_type = FULL /\ run.outcome = "no_data")
        => feed_files = EmptyMap

\* a FULL run that read its export, found no country with inventory, and
\* ended with the feed files of the run before
C26_stale_feeds_remain ==
    /\ pc = "done"
    /\ run.sync_type = FULL
    /\ run.outcome = "no_data"
    /\ run.export = "read"
    /\ feed_files # EmptyMap
    /\ feed_files = snap.feed_files

-----------------------------------------------------------------------------
(* SpecStore: the StateManager called with every bounded list, from every  *)
(* bounded persisted state                                                 *)

StoreKeys == {CompositeId("V1", "US"), CompositeId("V1", "CA"), CompositeId("V2", "US")}

StoreQuantities == {0, 2}

\* the CountryVariants the store is called with: keyed ones, and one without id
StoreVariants ==
    { CountryVariant(k[1], k[2], q, "S", "P") : k \in StoreKeys, q \in StoreQuantities }
    \cup { [CountryVariant("V2", "CA", 2, "S", "P") EXCEPT !.id = NoId] }

SeqsUpTo(S, n) == UNION { [1..m -> S] : m \in 0..n }

StoreInputs == SeqsUpTo(StoreVariants, MaxLen)

\* files an earlier process can have left behind
PersistedStates ==
    UNION { [D -> [stock_status : {IN_STOCK, OUT_OF_STOCK}, last_updated : {0}]]
            : D \in SUBSET StoreKeys }

\* streak: the consecutive commits of store_input that precede (or are) the call
\* stale: the first commit of the streak met a state the input differed from
NoOp == [op |-> "none", new |-> <<>>, changed |-> <<>>, streak |-> 0, stale |-> FALSE]

InitStore ==
    /\ variant_states \in PersistedStates
    /\ store_input \in StoreInputs
    /\ now = 1
    /\ store_op = NoOp
    /\ InitRest

Min(a, b) == IF a < b THEN a ELSE b

StoreDiff ==
    /\ LET r == detect_stock_changes(variant_states, store_input)
       IN  store_op' = [op |-> "diff", new |-> r.new, changed |-> r.changed,
                        streak |-> IF store_op.op = "commit" THEN store_op.streak ELSE 0,
                        stale |-> store_op.op = "commit" /\ store_op.stale]
    /\ UNCHANGED <<variant_states, now, store_input, restOfStore>>

StoreCommit ==
    /\ variant_states' = update_variant_states(variant_states, store_input, now)
    /\ now' = Min(now + 1, MaxNow)
    /\ LET before == detect_stock_changes(variant_states, store_input)
       IN  store_op' = [op |-> "commit", new |-> <<>>, changed |-> <<>>,
                        streak |-> IF store_op.op = "commit"
                                   THEN Min(store_op.streak + 1, 2) ELSE 1,
                        stale |-> IF store_op.op = "commit" THEN store_op.stale
                                  ELSE before.new # <<>> \/ before.changed # <<>>]
    /\ UNCHANGED <<store_input, restOfStore>>

StoreReset ==
    /\ variant_states' = reset_variant_states(variant_states)
    /\ store_op' = [NoOp EXCEPT !.op = "reset"]
    /\ UNCHANGED <<now, store_input, restOfStore>>

NextStore ==
    \/ StoreDiff
    \/ StoreCommit
    \/ StoreReset

SpecStore == InitStore /\ [][NextStore]_vars

IdsOf(variants) == { variants[i].id : i \in DOMAIN variants }

\* the keys of a list of CountryVariants; an entry without id has none
KeysOf(variants) == IdsOf(variants) \ {NoId}

\* the availability a list gives a key: that of its last entry with the key
CurrentAvailability(variants, k) ==
    LET last == CHOOSE i \in DOMAIN variants :
                    /\ variants[i].id = k
                    /\ \A j \in DOMAIN variants : variants[j].id = k => j <= i
    IN  IF variants[last].inventory_quantity > 0 THEN IN_STOCK ELSE OUT_OF_STOCK

NoDuplicateIds(variants) == Cardinality(IdsOf(variants)) = Len(variants)

\* C4: detect_stock_changes returns as new exactly the current keys with no
\* persisted state and as changed exactly the current keys whose persisted
\* availability differs from the current one; the two are disjoint and,
\* with the unchanged keys, make up the current key set, each key once.
C4_diff_partitions ==
    store_op.op = "diff" =>
        LET current == KeysOf(store_input)
            new == IdsOf(store_op.new)
            changed == IdsOf(store_op.changed)
            unchanged == { k \in current : /\ k \in DOMAIN variant_states
                                           /\ variant_states[k].stock_status
                                                = CurrentAvailability(store_input, k) }
        IN  /\ new = { k \in current : k \notin DOMAIN variant_states }
            /\ changed = { k \in current : /\ k \in DOMAIN variant_states
                                           /\ variant_states[k].stock_status
                                                # CurrentAvailability(store_input, k) }
            /\ new \cap changed = {}
            /\ unchanged \cap (new \cup changed) = {}
            /\ new \cup changed \cup unchanged = current
            /\ NoDuplicateIds(store_op.new) /\ NoDuplicateIds(store_op.changed)
            /\ \A i \in DOMAIN store_op.new :
                  \E j \in DOMAIN store_input : store_input[j] = store_op.new[i]
            /\ \A i \in DOMAIN store_op.changed :
                  \E j \in DOMAIN store_input : store_input[j] = store_op.changed[i]

\* a diff with a new key, a changed key and an unchanged key
C4_witness ==
    /\ store_op.op = "diff"
    /\ store_op.new # <<>>
    /\ store_op.changed # <<>>
    /\ KeysOf(store_input) \ (IdsOf(store_op.new) \cup IdsOf(store_op.changed)) # {}

\* C5: after two commits of a list, the diff of the same list is empty in
\* new and in changed, whatever was persisted before.
C5_commit_twice_then_diff_empty ==
    (store_op.op = "diff" /\ store_op.streak = 2) =>
        (store_op.new = <<>> /\ store_op.changed = <<>>)

\* two commits and a diff of a list the persisted state differed from
C5_witness ==
    /\ store_op.op = "diff"
    /\ store_op.streak = 2
    /\ store_op.stale
    /\ Len(store_input) > 1

-----------------------------------------------------------------------------
(* SpecHash: the fingerprints of two mapping builds, for every bounded pair *)
(* of shop states and allow-lists                                           *)

Location(country_code, is_active) ==
    [country_code |-> country_code, is_active |-> is_active]

\* the answers of the locations export
HashLocations ==
    { [l \in {"L1", "L2"} |-> Location(IF l = "L1" THEN "US" ELSE "CA", TRUE)],
      [l \in {"L1", "L2"} |-> Location(IF l = "L1" THEN "US" ELSE "CA", l = "L1")],
      [l \in {"L1"} |-> Location("US", TRUE)] }

\* what one build runs on: the shop (its stock included) and the allow-list
HashInputs ==
    [markets : SUBSET Countries,
     locations : HashLocations,
     delivery : {EmptyMap, [l \in {"L2"} |-> {"US"}]},
     inventory : [{<<"V1", "L1">>} -> 0..1],
     TARGET_COUNTRIES : {{"US"}, {"US", "CA"}}]

InitHash ==
    /\ store_input \in [1..2 -> HashInputs]
    /\ store_op = [op |-> "none"]
    /\ variant_states = EmptyMap
    /\ now = 1
    /\ InitRest

Built(input, fresh_mapping) ==
    [active_countries |-> fresh_mapping.active_countries,
     known_locations |-> DOMAIN input.locations,
     mapped_locations |-> DOMAIN fresh_mapping.location_country_map,
     location_country_map |-> fresh_mapping.location_country_map,
     TARGET_COUNTRIES |-> input.TARGET_COUNTRIES,
     mapping_hash |-> fresh_mapping.mapping_hash]

\* both builds by the meta deployment
HashMeta ==
    /\ store_op.op = "none"
    /\ store_op' =
          [op |-> "meta",
           builds |-> [i \in 1..2 |->
                         Built(store_input[i],
                               BuildMapping(store_input[i].markets,
                                            store_input[i].locations,
                                            store_input[i].delivery))]]
    /\ UNCHANGED <<variant_states, now, store_input, restOfStore>>

\* both builds by the google deployment
HashGoogle ==
    /\ store_op.op = "none"
    /\ store_op' =
          [op |-> "google",
           builds |-> [i \in 1..2 |->
                         Built(store_input[i],
                               BuildMappingGoogle(store_input[i].markets,
                                                  store_input[i].locations,
                                                  store_input[i].delivery,
                                                  store_input[i].TARGET_COUNTRIES))]]
    /\ UNCHANGED <<variant_states, now, store_input, restOfStore>>

\* a smart run on the second build, after a run on the first build saved
\* its hash: get_mapping_with_change_detection and
\* _determine_smart_sync_strategy, with and without a checkpoint
HashDetect ==
    /\ store_op.op \in {"meta", "google"}
    /\ "mapping_change" \notin DOMAIN store_op
    /\ \E last_sync \in {NoneSync, <<1>>} :
          LET got == get_mapping_with_change_detection(
                         TRUE, store_op.builds[1].mapping_hash,
                         store_op.builds[2].mapping_hash)
          IN  store_op' =
                 [op |-> store_op.op,
                  builds |-> store_op.builds,
                  last_sync |-> last_sync,
                  mapping_change |-> got,
                  strategy |-> _determine_smart_sync_strategy(got.has_changed, last_sync)]
    /\ UNCHANGED <<variant_states, now, store_input, restOfStore>>

NextHash ==
    \/ HashMeta
    \/ HashGoogle
    \/ HashDetect

SpecHash == InitHash /\ [][NextHash]_vars

HashesCompared == store_op.op \in {"meta", "google"}

FingerprintsDiffer == store_op.builds[1].mapping_hash # store_op.builds[2].mapping_hash

ActiveCountriesDiffer ==
    store_op.builds[1].active_countries # store_op.builds[2].active_countries

KnownLocationsDiffer ==
    store_op.builds[1].known_locations # store_op.builds[2].known_locations

MappedLocationsDiffer ==
    store_op.builds[1].mapped_locations # store_op.builds[2].mapped_locations

AllowListsDiffer ==
    store_op.builds[1].TARGET_COUNTRIES # store_op.builds[2].TARGET_COUNTRIES

\* C9: the fingerprints of two mapping builds differ if and only if the set
\* of active countries or the set of known locations differs; quantities,
\* the allow-list and which locations are mapped change nothing.
C9_fingerprint_iff_countries_or_known_locations ==
    HashesCompared =>
        (FingerprintsDiffer <=> (ActiveCountriesDiffer \/ KnownLocationsDiffer))

\* C9 as the code has it: the fingerprints differ if and only if the set of
\* active countries differs, or the set of locations that are mapped to a
\* country differs, or (google deployment) the allow-list differs; the
\* quantities and the known locations that are not mapped change nothing.
C9_fingerprint_iff_countries_or_mapped_locations ==
    HashesCompared =>
        (FingerprintsDiffer <=>
            \/ ActiveCountriesDiffer
            \/ MappedLocationsDiffer
            \/ (store_op.op = "google" /\ AllowListsDiffer))

\* two builds over the same countries and the same known locations, one of
\* which maps a location the other does not
C9_witness ==
    /\ store_op.op = "meta"
    /\ ~ActiveCountriesDiffer
    /\ ~KnownLocationsDiffer
    /\ MappedLocationsDiffer
    /\ FingerprintsDiffer
    /\ store_input[1].inventory # store_input[2].inventory

AssociationsDiffer ==
    store_op.builds[1].location_country_map # store_op.builds[2].location_country_map

SameSetsOtherAssociations ==
    /\ HashesCompared
    /\ ~ActiveCountriesDiffer
    /\ ~MappedLocationsDiffer
    /\ AssociationsDiffer

SmartRunDetected == HashesCompared /\ "mapping_change" \in DOMAIN store_op

\* C39: two builds with the same active countries and the same mapped
\* location ids, in which a location serves different countries, have equal
\* fingerprints; the change detection of the second build reports unchanged
\* and, with a checkpoint, the smart run selects INCREMENTAL from it.
C39_associations_not_in_fingerprint ==
    (SameSetsOtherAssociations /\ store_op.op = "meta") =>
        /\ ~FingerprintsDiffer
        /\ SmartRunDetected =>
              /\ ~store_op.mapping_change.has_changed
              /\ store_op.mapping_change.reason = REASON_MATCH
              /\ store_op.mapping_change.saved = store_op.builds[1].mapping_hash
              /\ store_op.last_sync # NoneSync =>
                    store_op.strategy = [sync_type |-> INCREMENTAL,
                                         since_timestamp |-> store_op.last_sync]

\* L2 serves CA in the first build and US in the second; the smart run with
\* a checkpoint is INCREMENTAL
C39_witness ==
    /\ store_op.op = "meta"
    /\ SameSetsOtherAssociations
    /\ SmartRunDetected
    /\ store_op.builds[1].location_country_map["L2"].countries = {"CA"}
    /\ store_op.builds[2].location_country_map["L2"].countries = {"US"}
    /\ store_op.last_sync # NoneSync
    /\ store_op.strategy.sync_type = INCREMENTAL

\* the same in the google deployment, whose fingerprint covers the
\* allow-list as well, when both builds run under one allow-list
C39_associations_not_in_fingerprint_google ==
    (SameSetsOtherAssociations /\ store_op.op = "google" /\ ~AllowListsDiffer) =>
        /\ ~FingerprintsDiffer
        /\ (SmartRunDetected /\ store_op.last_sync # NoneSync) =>
              store_op.strategy.sync_type = INCREMENTAL

C39_google_witness ==
    /\ store_op.op = "google"
    /\ SameSetsOtherAssociations
    /\ ~AllowListsDiffer
    /\ SmartRunDetected
    /\ store_op.last_sync # NoneSync
    /\ store_op.strategy.sync_type = INCREMENTAL

-----------------------------------------------------------------------------
(* SpecBulk: the bulk calls of one sync run, step by step, against the     *)
(* remote job slot                                                         *)

restOfBulk == <<variant_states, sync_state, mapping_hash_file, feed_files, now,
                SMART_MAPPING_ENABLED, markets, shop_locations, delivery, inventory, pc,
                run, snap, runs, env_changes, last_detect, changed_since, store_input,
                store_op>>

InitBulk ==
    /\ variant_states = EmptyMap
    /\ now = 1
    /\ store_input = <<>>
    /\ store_op = [op |-> "none"]
    /\ InitRest

CurrentJob == bulk.jobs[Len(bulk.jobs)]

\* the caller enters execute_bulk_query
BulkCall(call) ==
    /\ MayCall(bulk, call)
    /\ bulk' = [NoBulk EXCEPT !.call = call, !.pc = "submit", !.jobs = bulk.jobs]
    /\ UNCHANGED restOfBulk

\* the bulkOperationRunQuery mutation and the test of its answer
BulkSubmit ==
    /\ bulk.pc = "submit"
    /\ \E answer \in {"started", "user_errors", "graphql_errors"} :
          bulk' = [bulk EXCEPT
                     !.submissions = @ + 1,
                     !.jobs = IF answer = "started"
                              THEN Append(@, Job("CREATED", "", FALSE)) ELSE @,
                     !.error = IF answer = "started" THEN "" ELSE answer,
                     !.pc = SubmitOutcome(answer)]
    /\ UNCHANGED restOfBulk

\* time.sleep(10)
BulkInitialDelay ==
    /\ bulk.pc = "sleep"
    /\ bulk' = [bulk EXCEPT !.clock = @ + InitialDelay, !.pc = "poll"]
    /\ UNCHANGED restOfBulk

\* one pass of the while loop up to its sleep; the query itself can fail
BulkPoll ==
    /\ bulk.pc = "poll"
    /\ bulk.jobs # <<>>
    /\ \E answered \in BOOLEAN :
          IF ~answered
          THEN bulk' = [bulk EXCEPT !.pc = "raised", !.error = "poll_error"]
          ELSE LET bulk_op == CurrentJob
                   outcome == PollOutcome(bulk_op.status)
               IN  bulk' = [bulk EXCEPT
                              !.statuses = Append(@, bulk_op.status),
                              !.poll_times = Append(@, bulk.clock),
                              !.returned = IF outcome = "return" THEN bulk_op ELSE @,
                              !.result = IF outcome = "return" /\ ~bulk_op.url
                                         THEN "none" ELSE @,
                              !.error = IF outcome = "raise" THEN "status" ELSE @,
                              !.error_code = IF outcome = "raise"
                                             THEN bulk_op.errorCode ELSE @,
                              !.pc = CASE outcome = "wait" -> "wait"
                                       [] outcome = "raise" -> "raised"
                                       [] outcome = "return" ->
                                            IF bulk_op.url THEN "download" ELSE "returned"]
    /\ UNCHANGED restOfBulk

\* time.sleep(30)
BulkWait ==
    /\ bulk.pc = "wait"
    /\ Len(bulk.statuses) < MaxPolls
    /\ bulk' = [bulk EXCEPT !.clock = @ + PollInterval, !.pc = "poll"]
    /\ UNCHANGED restOfBulk

\* _download_bulk_result
BulkDownload ==
    /\ bulk.pc = "download"
    /\ \E downloaded \in BOOLEAN :
          bulk' = [bulk EXCEPT
                     !.downloads = @ + 1,
                     !.result = IF downloaded THEN "file" ELSE @,
                     !.error = IF downloaded THEN @ ELSE "download_failed",
                     !.pc = IF downloaded THEN "returned" ELSE "raised"]
    /\ UNCHANGED restOfBulk

\* the remote side works on the job in the slot
RemoteAdvance ==
    /\ bulk.jobs # <<>>
    /\ \E next \in [status : BulkStatuses, errorCode : ErrorCodes \cup {""},
                    url : BOOLEAN] :
          /\ \/ CurrentJob.status = "CREATED" /\ next.status = "RUNNING"
             \/ CurrentJob.status = "RUNNING"
                   /\ next.status \in {"COMPLETED", "FAILED", "CANCELING", "EXPIRED"}
             \/ CurrentJob.status = "CANCELING" /\ next.status = "CANCELED"
          /\ next.url => next.status = "COMPLETED"
          /\ (next.errorCode # "") <=> (next.status = "FAILED")
          /\ bulk' = [bulk EXCEPT !.jobs[Len(bulk.jobs)] = next]
    /\ UNCHANGED restOfBulk

NextBulk ==
    \/ \E call \in {"locations", "products"} : BulkCall(call)
    \/ BulkSubmit
    \/ BulkInitialDelay
    \/ BulkPoll
    \/ BulkWait
    \/ BulkDownload
    \/ RemoteAdvance

SpecBulk == InitBulk /\ [][NextBulk]_vars

PolledOn == {"CREATED", "RUNNING"}

LastStatus == bulk.statuses[Len(bulk.statuses)]

\* C11: after the initial delay the loop polls at the fixed interval exactly
\* while the polled status is CREATED or RUNNING and stops at the first poll
\* with another status; it returns the job only when that status is
\* COMPLETED and raises with the backend error code for FAILED, CANCELED or
\* any other status; a job that is not COMPLETED is never returned.
C11_poll_loop ==
    /\ \A i \in 1..Len(bulk.statuses) :
          /\ bulk.poll_times[i] = InitialDelay + (i - 1) * PollInterval
          /\ i < Len(bulk.statuses) => bulk.statuses[i] \in PolledOn
    /\ (bulk.statuses # <<>> /\ LastStatus \in PolledOn)
          => \/ bulk.pc \in {"wait", "poll"}
             \/ bulk.pc = "raised" /\ bulk.error = "poll_error"
    /\ (bulk.statuses # <<>> /\ LastStatus \notin PolledOn)
          => bulk.pc \in {"download", "returned", "raised"}
    /\ (bulk.statuses # <<>> /\ LastStatus = "COMPLETED")
          => (bulk.returned = CurrentJob /\ bulk.error \in {"", "download_failed"})
    /\ (bulk.statuses # <<>> /\ LastStatus \notin PolledOn \cup {"COMPLETED"})
          => /\ bulk.pc = "raised"
             /\ bulk.error = "status"
             /\ bulk.error_code = CurrentJob.errorCode
             /\ bulk.returned = NoJob
    /\ bulk.returned # NoJob
          => (bulk.returned.status = "COMPLETED" /\ LastStatus = "COMPLETED")
    /\ bulk.pc \in {"download", "returned"} => bulk.returned # NoJob

\* a FAILED job met at the third poll, after CREATED and RUNNING
C11_witness ==
    /\ bulk.statuses = <<"CREATED", "RUNNING", "FAILED">>
    /\ bulk.pc = "raised"
    /\ bulk.error_code \in ErrorCodes

SubmitErrors == {"user_errors", "graphql_errors"}

\* C13: one call of execute_bulk_query submits the query once: user errors
\* at submission raise before any poll or download; a failed or canceled
\* job and a failed download raise without a second submission; the
\* failure reaches the caller, no result is returned.
C13_single_submission ==
    /\ bulk.submissions <= 1
    /\ bulk.downloads <= 1
    /\ bulk.pc \notin {"idle", "submit"} => bulk.submissions = 1
    /\ bulk.error \in SubmitErrors
          => (bulk.pc = "raised" /\ bulk.statuses = <<>> /\ bulk.downloads = 0)
    /\ bulk.error # ""
          => (bulk.pc = "raised" /\ bulk.result = "" /\ bulk.submissions = 1)
    /\ bulk.pc = "raised" => bulk.error # ""
    /\ Len(bulk.jobs) <= (IF bulk.call = "products" THEN 2 ELSE 1)

\* the job failed after the submission was accepted
C13_witness ==
    /\ bulk.pc = "raised"
    /\ bulk.error = "status"
    /\ bulk.submissions = 1
    /\ LastStatus \in {"FAILED", "CANCELED"}

NotTerminal(job) == job.status \notin TerminalStatuses

\* jobs submitted by the run that the remote side has not ended
Outstanding == { i \in 1..Len(bulk.jobs) : NotTerminal(bulk.jobs[i]) }

-----------------------------------------------------------------------------
(* SpecLoad: load_products_from_bulk_jsonl called on every bounded export  *)
(* stream, under two mappings                                              *)

MaxStream == 4

LoadLines ==
    { VariantLine("V1", "S1", "P1"), VariantLine("V2", "S2", "P1"),
      VariantLine("V2", "", "P1"),
      LevelLine("V1", "L1", -2), LevelLine("V1", "L1", 5),
      LevelLine("V1", "L2", 0), LevelLine("V1", "L2", 5),
      LevelLine("V2", "L2", 5),
      BadJsonLine, BadEncodingLine, NotObjectLine }

LoadStreams == UNION { [1..n -> LoadLines] : n \in 0..MaxStream }

\* mappings as _create_country_mapping returns them: both locations serve
\* the US and L2 serves Canada too; or the US is the one active country and
\* L2 is not in the map
LoadMappings ==
    { [active_countries |-> {"US", "CA"},
       location_country_map |->
           [l \in {"L1", "L2"} |->
               [countries |-> IF l = "L1" THEN {"US"} ELSE {"US", "CA"}]]],
      [active_countries |-> {"US"},
       location_country_map |-> [l \in {"L1"} |-> [countries |-> {"US"}]]] }

restOfLoad == <<variant_states, sync_state, mapping_hash_file, feed_files, now,
                SMART_MAPPING_ENABLED, markets, shop_locations, delivery, inventory, pc,
                run, snap, runs, env_changes, last_detect, changed_since, store_input,
                bulk>>

InitLoad ==
    /\ variant_states = EmptyMap
    /\ now = 1
    /\ \E stream \in LoadStreams, mapping \in LoadMappings :
           store_input = [stream |-> stream, mapping |-> mapping]
    /\ store_op = [op |-> "none"]
    /\ InitRest

LoadOf(stream) ==
    load_products_from_bulk_jsonl(stream, TRUE, store_input.mapping.active_countries,
                                  store_input.mapping.location_country_map)

AsSet(seq) == { seq[i] : i \in DOMAIN seq }

Without(stream, i) == [j \in 1..(Len(stream) - 1) |-> IF j < i THEN stream[j] ELSE stream[j + 1]]

\* the load of the stream as the export delivered it
LoadStream ==
    /\ store_op.op = "none"
    /\ store_op' = [op |-> "load", result |-> LoadOf(store_input.stream)]
    /\ UNCHANGED restOfLoad

\* the load of the stream, and of the same lines in every other order
LoadPermuted ==
    /\ store_op.op = "none"
    /\ LET stream == store_input.stream
           orders == { [i \in DOMAIN stream |-> stream[p[i]]] :
                          p \in Permutations(DOMAIN stream) }
       IN  store_op' = [op |-> "permuted", result |-> LoadOf(stream),
                        results |-> { AsSet(LoadOf(o)) : o \in orders }]
    /\ UNCHANGED restOfLoad

\* the load of the stream, and of the stream that lacks its line i
LoadWithout(i) ==
    /\ store_op.op = "none"
    /\ i \in DOMAIN store_input.stream
    /\ store_op' = [op |-> "without", i |-> i, result |-> LoadOf(store_input.stream),
                    without |-> LoadOf(Without(store_input.stream, i))]
    /\ UNCHANGED restOfLoad

\* the load of the stream, with the count of skipped pairs it logs
LoadCounted ==
    /\ store_op.op = "none"
    /\ store_op' = [op |-> "counted", result |-> LoadOf(store_input.stream),
                    skipped_count |->
                        skipped_count(store_input.stream, TRUE,
                                      store_input.mapping.active_countries,
                                      store_input.mapping.location_country_map)]
    /\ UNCHANGED restOfLoad

NextLoad ==
    \/ LoadStream
    \/ LoadCounted
    \/ LoadPermuted
    \/ \E i \in 1..MaxStream : LoadWithout(i)

SpecLoad == InitLoad /\ [][NextLoad]_vars

Malformed(line) == ~line.decodable \/ ~line.valid \/ ~line.is_object

\* C15: a malformed line of the export stream (invalid JSON, invalid
\* encoding, or a decodable line that is no record object) is skipped: the
\* load returns what it returns for the stream without that line
C15_malformed_line_skipped ==
    (store_op.op = "without" /\ Malformed(store_input.stream[store_op.i]))
        => store_op.result = store_op.without

\* a line of invalid encoding, or a JSON line that is no object, among lines
\* that build CountryVariants without it: the load returns no variant at all
C15_malformed_line_loses_all ==
    /\ store_op.op = "without"
    /\ store_input.stream[store_op.i] \in {BadEncodingLine, NotObjectLine}
    /\ store_op.without # <<>>
    /\ store_op.result = <<>>

\* a line of invalid JSON is skipped and the other lines build their variants
C15_bad_json_skipped ==
    /\ store_op.op = "without"
    /\ store_input.stream[store_op.i] = BadJsonLine
    /\ store_op.without # <<>>
    /\ store_op.result = store_op.without

\* what the claims below read off the stream itself
IsVariantLine(line) ==
    ~Malformed(line) /\ line.parentId = NoGid /\ ContainsProductVariant(line.id)

IsLevelLine(line) ==
    ~Malformed(line) /\ line.parentId # NoGid /\ line.has_location /\ line.has_quantities

Serves(l, c) ==
    /\ l \in DOMAIN store_input.mapping.location_country_map
    /\ c \in store_input.mapping.location_country_map[l].countries

\* the positions of v's inventory facts at mapped locations that serve c
FactsOf(v, c) ==
    { i \in DOMAIN store_input.stream :
        /\ IsLevelLine(store_input.stream[i])
        /\ store_input.stream[i].parentId.num = v
        /\ Serves(store_input.stream[i].location, c) }

RECURSIVE SumAvailable(_)
SumAvailable(I) ==
    IF I = {} THEN 0
    ELSE LET i == CHOOSE x \in I : TRUE
         IN  store_input.stream[i].available + SumAvailable(I \ {i})

VariantIdsOnce ==
    \A i, j \in DOMAIN store_input.stream :
        (/\ IsVariantLine(store_input.stream[i]) /\ IsVariantLine(store_input.stream[j])
         /\ store_input.stream[i].id = store_input.stream[j].id) => i = j

Rows == AsSet(store_op.result)

OutCountries == { row.country_code : row \in Rows }

\* C16: for every order of the same lines, each variant id occurring once,
\* inventory facts before their variant included, the load produces the same
\* set of CountryVariants with the same quantities
C16_order_independent ==
    (store_op.op = "permuted" /\ VariantIdsOnce) => store_op.results = {Rows}

\* a stream that opens with an inventory fact whose variant comes later, and
\* that builds at least one CountryVariant
C16_witness ==
    /\ store_op.op = "permuted"
    /\ VariantIdsOnce
    /\ Len(store_input.stream) >= 3
    /\ IsLevelLine(store_input.stream[1])
    /\ store_input.stream[1].available > 0
    /\ \E i \in DOMAIN store_input.stream :
           /\ IsVariantLine(store_input.stream[i])
           /\ store_input.stream[i].id = store_input.stream[1].parentId
    /\ \E row \in Rows : row.inventory_quantity > 0

\* C17: the quantity of every emitted CountryVariant (v, c) is the sum of
\* the available quantities of v's inventory facts at mapped locations that
\* serve c, and it is IN_STOCK exactly when that sum is greater than 0
C17_quantity_is_sum_of_facts ==
    store_op.op = "load" =>
        \A row \in Rows :
            LET total == SumAvailable(FactsOf(row.shopify_variant_id, row.country_code))
            IN  /\ row.inventory_quantity = total
                /\ (StockStatusOf(row) = IN_STOCK) <=> (total > 0)

\* a variant with 5 at one location and -2 at another, both serving the
\* country: the row carries 5, the facts sum to 3
C17_negative_fact_dropped ==
    /\ store_op.op = "load"
    /\ \E row \in Rows :
           /\ row.inventory_quantity = 5
           /\ SumAvailable(FactsOf(row.shopify_variant_id, row.country_code)) = 3

\* the scenario of C18: a variant with a SKU whose facts serving the US are
\* 5 at L1 and 0 at L2
C18_scenario ==
    /\ ~Raises(store_input.stream)
    /\ VariantIdsOnce
    /\ \E i \in DOMAIN store_input.stream :
           /\ IsVariantLine(store_input.stream[i])
           /\ store_input.stream[i].id.num = "V1"
           /\ store_input.stream[i].sku # ""
    /\ Cardinality(FactsOf("V1", "US")) = 2
    /\ { <<store_input.stream[i].location, store_input.stream[i].available>> :
            i \in FactsOf("V1", "US") } = {<<"L1", 5>>, <<"L2", 0>>}

\* C18: no two emitted CountryVariants share a composite key; a variant with
\* facts of 5 and 0 at two locations serving one country yields exactly one
\* CountryVariant for the pair, with quantity 5 and IN_STOCK
C18_one_row_per_key ==
    store_op.op = "load" =>
        /\ \A i, j \in DOMAIN store_op.result :
               store_op.result[i].id = store_op.result[j].id => i = j
        /\ C18_scenario =>
               /\ Cardinality({ i \in DOMAIN store_op.result :
                                  store_op.result[i].id = CompositeId("V1", "US") }) = 1
               /\ \A row \in Rows :
                      row.id = CompositeId("V1", "US") =>
                          row.inventory_quantity = 5 /\ StockStatusOf(row) = IN_STOCK

C18_witness ==
    /\ store_op.op = "load"
    /\ C18_scenario
    /\ \E row \in Rows : row.id = CompositeId("V1", "US")

C20_countries_of_emitted_stock ==
    store_op.op = "load" =>
        OutCountries =
            { c \in store_input.mapping.active_countries :
                \E row \in Rows : SumAvailable(FactsOf(row.shopify_variant_id, c)) # 0 }

\* the countries with a positive inventory fact of any variant id
PositiveCountries ==
    { c \in store_input.mapping.active_countries :
        \E i \in DOMAIN store_input.stream :
            /\ IsLevelLine(store_input.stream[i])
            /\ store_input.stream[i].available > 0
            /\ Serves(store_input.stream[i].location, c) }

\* some variant's record, the last one of its id, carries a SKU
SomeSku ==
    \E i \in DOMAIN store_input.stream :
        /\ IsVariantLine(store_input.stream[i])
        /\ store_input.stream[i].sku # ""
        /\ \A j \in DOMAIN store_input.stream :
               (IsVariantLine(store_input.stream[j])
                /\ store_input.stream[j].id = store_input.stream[i].id) => j <= i

\* C20: when the load succeeds and some variant carries a SKU, the countries
\* of the output are the active countries in which any variant id, emitted
\* or not, has a positive inventory fact at a mapped location; otherwise the
\* output is empty; an active country without such a fact has no row
C20_countries_with_positive_stock ==
    store_op.op = "load" =>
        OutCountries = IF Raises(store_input.stream) \/ ~SomeSku THEN {}
                       ELSE PositiveCountries

\* a country in the output where every emitted variant has quantity 0, while
\* another active country has no row
C20_witness ==
    /\ store_op.op = "load"
    /\ OutCountries = {"US"}
    /\ "CA" \in store_input.mapping.active_countries
    /\ \A row \in Rows : row.inventory_quantity = 0

\* the variant ids whose record, the last one of the id, carries no SKU
NoSkuVariants ==
    { store_input.stream[i].id.num : i \in
        { i \in DOMAIN store_input.stream :
            /\ IsVariantLine(store_input.stream[i])
            /\ store_input.stream[i].sku = ""
            /\ \A j \in DOMAIN store_input.stream :
                   (IsVariantLine(store_input.stream[j])
                    /\ store_input.stream[j].id = store_input.stream[i].id) => j <= i } }

\* C21: every emitted CountryVariant carries a non-empty SKU, no row belongs
\* to a variant without SKU, and the skipped count is the number of pairs of
\* a variant without SKU and a target country
C21_no_row_without_sku ==
    store_op.op = "counted" =>
        /\ \A row \in Rows :
               row.sku # "" /\ row.shopify_variant_id \notin NoSkuVariants
        /\ store_op.skipped_count =
               IF Raises(store_input.stream) THEN 0
               ELSE Cardinality(NoSkuVariants \X PositiveCountries)

\* a load that emits rows and skips a variant without SKU in two countries
C21_witness ==
    /\ store_op.op = "counted"
    /\ store_op.skipped_count = 2
    /\ NoSkuVariants # {}
    /\ Rows # {}

-----------------------------------------------------------------------------
(* SpecMap: one mapping build of each deployment, for every bounded shop   *)
(* and every outcome of the delivery-profile query                         *)

\* a declared country can be one no market sells to
DeclaredCountries == {"US", "DE"}

MapLocations ==
    [{"L1", "L2"} -> { Location(c, a) : c \in DeclaredCountries, a \in BOOLEAN }]

\* the zone countries of a location group; a group can have no zone
ZoneCountries == { {}, {"DE"}, {"US"}, {"CA", "DE"} }

MapRelationships ==
    UNION { [D -> ZoneCountries] : D \in SUBSET {"L1", "L2"} }

MapInputs ==
    [markets : SUBSET Countries,
     locations : MapLocations,
     answer : [kind : {DELIVERY_OK} \cup DeliveryFailures,
               relationships : MapRelationships],
     TARGET_COUNTRIES : {{"US"}}]

InitMap ==
    /\ store_input \in MapInputs
    /\ store_op = [op |-> "none"]
    /\ variant_states = EmptyMap
    /\ now = 1
    /\ InitRest

MapBuilt(op, fresh_mapping) ==
    [op |-> op,
     active_countries |-> fresh_mapping.active_countries,
     location_country_map |-> fresh_mapping.location_country_map]

\* _build_fresh_mapping of the meta deployment
MapMeta ==
    /\ store_op.op = "none"
    /\ store_op' =
          MapBuilt("meta",
                   BuildMapping(store_input.markets, store_input.locations,
                                get_location_country_relationships(store_input.answer)))
    /\ UNCHANGED <<variant_states, now, store_input, restOfStore>>

\* _build_fresh_mapping of the google deployment
MapGoogle ==
    /\ store_op.op = "none"
    /\ store_op' =
          MapBuilt("google",
                   BuildMappingGoogle(store_input.markets, store_input.locations,
                                      get_location_country_relationships(store_input.answer),
                                      store_input.TARGET_COUNTRIES))
    /\ UNCHANGED <<variant_states, now, store_input, restOfStore>>

NextMap ==
    \/ MapMeta
    \/ MapGoogle

SpecMap == InitMap /\ [][NextMap]_vars

MapWasBuilt == store_op.op \in {"meta", "google"}

\* C22: every entry of the location-to-country map belongs to an active
\* location, serves at least one country, and serves active countries only;
\* an inactive location is never mapped
C22_map_entries_active ==
    MapWasBuilt =>
        \A l \in DOMAIN store_input.locations :
            /\ l \in DOMAIN store_op.location_country_map =>
                   /\ store_input.locations[l].is_active
                   /\ store_op.location_country_map[l].countries # {}
                   /\ store_op.location_country_map[l].countries
                          \subseteq store_op.active_countries
            /\ ~store_input.locations[l].is_active =>
                   l \notin DOMAIN store_op.location_country_map

\* a build that maps one location and leaves out an inactive one whose
\* declared country is active and whose zones name an active country
C22_witness ==
    /\ MapWasBuilt
    /\ store_input.answer.kind = DELIVERY_OK
    /\ DOMAIN store_op.location_country_map = {"L1"}
    /\ ~store_input.locations["L2"].is_active
    /\ store_input.locations["L2"].country_code \in store_op.active_countries
    /\ "L2" \in DOMAIN store_input.answer.relationships
    /\ store_input.answer.relationships["L2"] \cap store_op.active_countries # {}

HasZoneEntry(l) ==
    /\ store_input.answer.kind = DELIVERY_OK
    /\ l \in DOMAIN store_input.answer.relationships

\* C23: a location that has a fulfillment-zone entry is mapped to exactly
\* the active countries of that entry, and is not mapped when none of them
\* is active; the declared country is used only without an entry
C23_fallback_only_without_entry ==
    MapWasBuilt =>
        \A l \in DOMAIN store_input.locations :
            HasZoneEntry(l) =>
                LET zone == store_input.answer.relationships[l]
                                \cap store_op.active_countries
                IN  IF l \in DOMAIN store_op.location_country_map
                    THEN store_op.location_country_map[l].countries = zone
                    ELSE TRUE

\* a location whose zones name Germany only, which no market sells to, is
\* mapped to the US, its declared country
C23_zone_entry_falls_back ==
    /\ MapWasBuilt
    /\ HasZoneEntry("L1")
    /\ store_input.answer.relationships["L1"] = {"DE"}
    /\ "L1" \in DOMAIN store_op.location_country_map
    /\ store_op.location_country_map["L1"].countries = {"US"}

\* the active locations whose declared country is active
DeclaredActive ==
    { l \in DOMAIN store_input.locations :
        /\ store_input.locations[l].is_active
        /\ store_input.locations[l].country_code \in store_op.active_countries }

\* C24: when the fulfillment-zone query fails, the mapping is built and maps
\* every active location whose declared country is active to that country
\* alone, and no other location
C24_degrade_to_declared_country ==
    (MapWasBuilt /\ store_input.answer.kind \in DeliveryFailures) =>
        /\ DOMAIN store_op.location_country_map = DeclaredActive
        /\ \A l \in DeclaredActive :
               store_op.location_country_map[l].countries
                   = {store_input.locations[l].country_code}

\* a continuation page fails after the first page named other countries for
\* a location; the location is mapped to its declared country
C24_witness ==
    /\ MapWasBuilt
    /\ store_input.answer.kind = DELIVERY_PAGE_FAILED
    /\ "L1" \in DOMAIN store_input.answer.relationships
    /\ store_input.answer.relationships["L1"] = {"CA", "DE"}
    /\ store_op.active_countries = {"US", "CA"}
    /\ "L1" \in DOMAIN store_op.location_country_map
    /\ store_op.location_country_map["L1"].countries = {"US"}

-----------------------------------------------------------------------------
(* SpecFeed: a FULL export of one list of CountryVariants, then a FULL or   *)
(* an INCREMENTAL export of a second list, by each deployment              *)

FeedQuantities == {0, 5}

\* the lists the loader returns: every variant of the list for every target
\* country, in variant order and country order; V2 may lack a product
FeedLists(v2_product) ==
    LET product(v) == IF v = "V2" THEN v2_product ELSE "P1"
        rows(vs, cs, qty) ==
            LET keys == SortedFrom(<<CompositeId("V1", "CA"), CompositeId("V1", "US"),
                                     CompositeId("V2", "CA"), CompositeId("V2", "US")>>,
                                   vs \X cs)
            IN  [i \in 1..Len(keys) |->
                    CountryVariant(keys[i][1], keys[i][2], qty[keys[i]], "S", product(keys[i][1]))]
    IN  { rows(vs, cs, qty) :
            <<vs, cs, qty>> \in
                UNION { UNION { {vs0} \X {cs0} \X [vs0 \X cs0 -> FeedQuantities] :
                                  cs0 \in SUBSET Countries } : vs0 \in SUBSET Variants } }

FeedInputs ==
    UNION { [previous : FeedLists(p), current : FeedLists(p)] : p \in {"P1", ""} }

Deployments == {"meta", "google"}

InitFeed ==
    /\ store_input \in FeedInputs
    /\ store_op = [op |-> "none"]
    /\ variant_states = EmptyMap
    /\ now = 1
    /\ InitRest

FullOf(deployment, files, variants) ==
    IF deployment = "meta" THEN create_country_feeds_full(files, variants)
    ELSE create_country_feeds_full_google(files, variants)

IncrementalOf(deployment, files, new_variants, changed_variants) ==
    IF deployment = "meta"
    THEN update_country_feeds_incremental(files, new_variants, changed_variants)
    ELSE update_country_feeds_incremental_google(files, new_variants, changed_variants)

\* the first run: _process_variants("FULL", previous) on an empty directory
FeedFirst(deployment) ==
    /\ store_op.op = "none"
    /\ store_op' =
          [op |-> "first", deployment |-> deployment,
           files |-> FullOf(deployment, EmptyMap, store_input.previous).files,
           states |-> update_variant_states(reset_variant_states(EmptyMap),
                                            store_input.previous, now)]
    /\ UNCHANGED <<variant_states, now, store_input, restOfStore>>

\* the next run is FULL: create_country_feeds_full(current)
FeedFull ==
    /\ store_op.op = "first"
    /\ LET r == FullOf(store_op.deployment, store_op.files, store_input.current)
       IN  store_op' =
              [op |-> "full", deployment |-> store_op.deployment,
               before |-> store_op.files, variants |-> store_input.current,
               files |-> r.files, created |-> r.created,
               states |-> update_variant_states(reset_variant_states(store_op.states),
                                                store_input.current, now)]
    /\ UNCHANGED <<variant_states, now, store_input, restOfStore>>

\* the next run is INCREMENTAL: detect_stock_changes(current), then
\* update_country_feeds_incremental when anything is new or changed
FeedIncremental ==
    /\ store_op.op = "first"
    /\ LET d == detect_stock_changes(store_op.states, store_input.current)
           r == IncrementalOf(store_op.deployment, store_op.files, d.new, d.changed)
       IN  store_op' =
              [op |-> "incremental", deployment |-> store_op.deployment,
               before |-> store_op.files, new |-> d.new, changed |-> d.changed,
               files |-> IF d.new = <<>> /\ d.changed = <<>> THEN store_op.files
                         ELSE r.files,
               created |-> IF d.new = <<>> /\ d.changed = <<>> THEN {} ELSE r.created,
               states |-> IF d.new = <<>> /\ d.changed = <<>> THEN store_op.states
                          ELSE update_variant_states(store_op.states,
                                                     store_input.current, now),
               found |-> store_op.states]
    /\ UNCHANGED <<variant_states, now, store_input, restOfStore>>

\* the INCREMENTAL run was interrupted after update_country_feeds_incremental
\* and before update_variant_states: the files are written, the states and
\* the checkpoint are the ones it found, and the next run gets the same export
FeedRerun ==
    /\ store_op.op = "incremental"
    /\ store_op.new # <<>> \/ store_op.changed # <<>>
    /\ LET d == detect_stock_changes(store_op.found, store_input.current)
           r == IncrementalOf(store_op.deployment, store_op.files, d.new, d.changed)
       IN  store_op' =
              [op |-> "rerun", deployment |-> store_op.deployment,
               before |-> store_op.files, new |-> d.new, changed |-> d.changed,
               files |-> r.files, created |-> r.created,
               states |-> update_variant_states(store_op.found, store_input.current, now),
               found |-> store_op.found]
    /\ UNCHANGED <<variant_states, now, store_input, restOfStore>>

NextFeed ==
    \/ \E deployment \in Deployments : FeedFirst(deployment)
    \/ FeedFull
    \/ FeedIncremental
    \/ FeedRerun

SpecFeed == InitFeed /\ [][NextFeed]_vars

CountriesOfList(variants) == { v.country_code : v \in SeqRange(variants) }

QualifyingCountries(variants) ==
    { v.country_code : v \in { x \in SeqRange(variants) : x.product_id # "" } }

TouchedCountries == CountriesOfList(store_op.new \o store_op.changed)

\* C27: an INCREMENTAL update deletes no feed file and leaves the file of
\* every country without a new or changed variant as it was
C27_incremental_frame ==
    store_op.op = "incremental" =>
        /\ DOMAIN store_op.before \subseteq DOMAIN store_op.files
        /\ \A c \in DOMAIN store_op.before :
               c \notin TouchedCountries => store_op.files[c] = store_op.before[c]

\* files for the US and Canada, an update that touches the US only
C27_witness ==
    /\ store_op.op = "incremental"
    /\ DOMAIN store_op.before = {"US", "CA"}
    /\ TouchedCountries = {"US"}
    /\ store_op.files["US"] # store_op.before["US"]
    /\ store_op.files["CA"] = store_op.before["CA"]

\* the key a variant has in the feed file of its deployment
FeedKey(variant) ==
    IF store_op.deployment = "meta" THEN _extract_shopify_variant_id(variant)
    ELSE GoogleId(variant)

OfCountry(variants, c) == { v \in SeqRange(variants) : v.country_code = c }

HasRow(rows, key, availability) ==
    \E i \in DOMAIN rows : rows[i].id = key /\ rows[i].availability = availability

HasKey(rows, key) == \E i \in DOMAIN rows : rows[i].id = key

\* what C28 says of the rows that were there, of the new keys, and of the
\* rows that may be in the file
C28_frame(c) ==
    LET old == IF c \in DOMAIN store_op.before THEN store_op.before[c] ELSE <<>>
        rows == store_op.files[c]
        moved == { FeedKey(v) : v \in OfCountry(store_op.new, c) \cup OfCountry(store_op.changed, c) }
    IN  /\ \A i \in DOMAIN old :
               old[i].id \notin moved => HasRow(rows, old[i].id, old[i].availability)
        /\ \A v \in OfCountry(store_op.new, c) : HasRow(rows, FeedKey(v), StockStatusOf(v))
        /\ \A i \in DOMAIN rows :
               \/ rows[i].id \in moved
               \/ HasRow(old, rows[i].id, rows[i].availability)

C28_changed_key_without_row ==
    /\ store_op.op = "incremental"
    /\ store_op.deployment = "meta"
    /\ \E c \in store_op.created :
           \E v \in OfCountry(store_op.changed, c) : ~HasKey(store_op.files[c], FeedKey(v))

\* the feed file of the key's country has a row of the key's variant with
\* this availability
RowOfKey(files, composite_id, availability) ==
    /\ composite_id[2] \in DOMAIN files
    /\ \E i \in DOMAIN files[composite_id[2]] :
          LET row == files[composite_id[2]][i]
          IN  /\ row.availability = availability
              /\ IF store_op.deployment = "meta" THEN row.id = composite_id[1]
                 ELSE row.id[3] = composite_id[1]

StatesAgreeWithFiles ==
    \A composite_id \in DOMAIN store_op.states :
        RowOfKey(store_op.files, composite_id, store_op.states[composite_id].stock_status)

\* C36: after a FULL or INCREMENTAL run, every key with a persisted
\* availability has a row with that availability in its country's feed file
C36_states_agree_with_files ==
    store_op.op \in {"first", "full", "incremental"} => StatesAgreeWithFiles

\* after the first FULL run of the meta deployment (V2, US) is persisted as
\* in stock, the US file exists, and it has no row of V2
C36_state_without_row ==
    /\ store_op.op = "first"
    /\ store_op.deployment = "meta"
    /\ CompositeId("V2", "US") \in DOMAIN store_op.states
    /\ store_op.states[CompositeId("V2", "US")].stock_status = IN_STOCK
    /\ "US" \in DOMAIN store_op.files
    /\ ~HasKey(store_op.files["US"], "V2")
    /\ HasKey(store_op.files["US"], "V1")

\* when every variant of both lists has a product id, states and files agree
C36_agree_with_product_ids ==
    (/\ store_op.op \in {"first", "full", "incremental"}
     /\ \A v \in SeqRange(store_input.previous) \cup SeqRange(store_input.current) :
            v.product_id # "") => StatesAgreeWithFiles

\* no two rows of a file have the same identifier
UniqueIds(rows) ==
    \A i, j \in DOMAIN rows : rows[i].id = rows[j].id => i = j

\* C37: after FULL and INCREMENTAL runs, a run interrupted between the feed
\* write and the state commit and run again included, every feed file has
\* at most one row per row identifier
C37_one_row_per_id ==
    store_op.op \in {"first", "full", "incremental", "rerun"} =>
        \A c \in DOMAIN store_op.files : UniqueIds(store_op.files[c])

\* meta: the interrupted run appended the row of a new key to the US file,
\* the run after it appended it again
C37_row_appended_twice ==
    /\ store_op.op = "rerun"
    /\ store_op.deployment = "meta"
    /\ "US" \in DOMAIN store_op.before
    /\ UniqueIds(store_op.before["US"])
    /\ ~UniqueIds(store_op.files["US"])

\* runs that are not interrupted leave one row per identifier
C37_one_row_per_id_without_interrupt ==
    store_op.op \in {"first", "full", "incremental"} =>
        \A c \in DOMAIN store_op.files : UniqueIds(store_op.files[c])

\* the google deployment leaves one row per identifier after the rerun too
C37_one_row_per_id_google ==
    (store_op.op = "rerun" /\ store_op.deployment = "google") =>
        \A c \in DOMAIN store_op.files : UniqueIds(store_op.files[c])

-----------------------------------------------------------------------------
(* SpecWrite: the INCREMENTAL update of one feed file, system call by       *)
(* system call, with a crash of the process at any point                   *)

HEADER == "header"

FeedLines == {"V1 in stock", "V1 out of stock", "V2 in stock"}

\* a file as a reader finds it: its lines, the header first
File(lines) == [exists |-> TRUE, lines |-> lines]
NoFile == [exists |-> FALSE, lines |-> <<>>]

FeedContents == { <<HEADER>> \o rows : rows \in SeqsUpTo(FeedLines, 2) }

\* the file before the update, and the content the update has computed
WriteInputs ==
    [deployment : Deployments,
     old : {NoFile} \cup { File(c) : c \in FeedContents },
     new : FeedContents]

NoWrite == [pc |-> "start", target |-> NoFile, temp |-> NoFile, written |-> 0]

InitWrite ==
    /\ \E input \in WriteInputs :
           /\ store_input = input
           /\ store_op = [NoWrite EXCEPT !.target = input.old]
    /\ variant_states = EmptyMap
    /\ now = 1
    /\ InitRest

\* meta: tempfile.NamedTemporaryFile(delete=False, dir=output_file.parent);
\* google: open(filepath, 'w'), which truncates the feed file
WriteOpen ==
    /\ store_op.pc = "start"
    /\ store_op' =
          IF store_input.deployment = "meta"
          THEN [store_op EXCEPT !.pc = "writing", !.temp = File(<<>>)]
          ELSE [store_op EXCEPT !.pc = "writing", !.target = File(<<>>)]
    /\ UNCHANGED <<variant_states, now, store_input, restOfStore>>

\* writer.writerow: one more line reaches the open file
WriteLine ==
    /\ store_op.pc = "writing"
    /\ store_op.written < Len(store_input.new)
    /\ LET line == store_input.new[store_op.written + 1]
       IN  store_op' =
              IF store_input.deployment = "meta"
              THEN [store_op EXCEPT !.written = @ + 1,
                                    !.temp = File(Append(store_op.temp.lines, line))]
              ELSE [store_op EXCEPT !.written = @ + 1,
                                    !.target = File(Append(store_op.target.lines, line))]
    /\ UNCHANGED <<variant_states, now, store_input, restOfStore>>

\* meta: the temporary file is closed and Path(temp_file.name).replace(output_file)
\* renames it over the feed file; google: the feed file is closed
WriteClose ==
    /\ store_op.pc = "writing"
    /\ store_op.written = Len(store_input.new)
    /\ store_op' =
          IF store_input.deployment = "meta"
          THEN [store_op EXCEPT !.pc = "done", !.target = store_op.temp, !.temp = NoFile]
          ELSE [store_op EXCEPT !.pc = "done"]
    /\ UNCHANGED <<variant_states, now, store_input, restOfStore>>

\* the process is killed: no except clause runs, the files stay as they are
WriteCrash ==
    /\ store_op.pc \in {"start", "writing"}
    /\ store_op' = [store_op EXCEPT !.pc = "crashed"]
    /\ UNCHANGED <<variant_states, now, store_input, restOfStore>>

NextWrite ==
    \/ WriteOpen
    \/ WriteLine
    \/ WriteClose
    \/ WriteCrash

SpecWrite == InitWrite /\ [][NextWrite]_vars

\* C29: at every point of an INCREMENTAL update, a crash included, the feed
\* file a reader finds is the complete old file or the complete new file
C29_atomic_replace ==
    store_op.pc \in {"start", "writing", "done", "crashed"} =>
        store_op.target \in {store_input.old, File(store_input.new)}

\* the google update crashed after its first line: the feed file holds the
\* header alone, where the old file had rows and the new one has rows
C29_truncated_feed_visible ==
    /\ store_input.deployment = "google"
    /\ store_op.pc = "crashed"
    /\ store_input.old.exists
    /\ Len(store_input.old.lines) > 1
    /\ Len(store_input.new) > 1
    /\ store_op.target = File(<<HEADER>>)

\* the meta update crashed while it wrote: the feed file is the old one
C29_meta_crash_keeps_old ==
    /\ store_input.deployment = "meta"
    /\ store_op.pc = "crashed"
    /\ store_op.written > 0
    /\ store_input.old.exists
    /\ store_op.target = store_input.old
    /\ store_op.target # File(store_input.new)

\* the variants of the shop with a SKU and a product id
QualifyingVariants == { v \in Variants : Sku(v) # "" /\ ProductOf(v) # "" }

\* C30: when the first-ever run has completed, every output country has a
\* feed file, and that file has a row, and the persisted state an entry,
\* for every variant of the export with a SKU and a product id
C30_first_run_writes_every_variant ==
    (FirstEverRun /\ pc = "done" /\ run.outcome = "completed") =>
        /\ run.sync_type = FULL
        /\ DOMAIN feed_files = CountriesOfList(run.variants)
        /\ \A c \in DOMAIN feed_files :
               \A v \in QualifyingVariants :
                   /\ HasKey(feed_files[c], v)
                   /\ CompositeId(v, c) \in DOMAIN variant_states

\* a completed first-ever run with a feed file that holds a row in stock and
\* a row out of stock
C30_witness ==
    /\ FirstEverRun
    /\ pc = "done"
    /\ run.outcome = "completed"
    /\ \E c \in DOMAIN feed_files :
           /\ \E i \in DOMAIN feed_files[c] : feed_files[c][i].availability = IN_STOCK
           /\ \E i \in DOMAIN feed_files[c] : feed_files[c][i].availability = OUT_OF_STOCK

\* the locations that serve country c under the run's mapping
ServingLocations(c) ==
    { l \in Locations :
          /\ l \in DOMAIN run.location_country_map
          /\ c \in run.location_country_map[l].countries }

\* variant v has inventory for country c, all of it at quantity 0
AllZeroFor(v, c) ==
    /\ ServingLocations(c) # {}
    /\ \A l \in ServingLocations(c) : inventory[<<v, l>>] = 0

\* an INCREMENTAL run has ended without an error after reading its export
IncrementalRunOver ==
    /\ pc = "done"
    /\ run.sync_type = INCREMENTAL
    /\ run.outcome \in {"completed", "no_data"}
    /\ run.export = "read"

\* the run found (v, c) persisted as in stock and its export returned v
\* with all its inventory for c at 0
WentOutOfStock(v, c) ==
    /\ v \in run.exported
    /\ CompositeId(v, c) \in DOMAIN snap.variant_states
    /\ snap.variant_states[CompositeId(v, c)].stock_status = IN_STOCK
    /\ AllZeroFor(v, c)

\* the feed file of c and the persisted state say (v, c) is out of stock
ShownOutOfStock(v, c) ==
    /\ c \in DOMAIN feed_files
    /\ HasRow(feed_files[c], v, OUT_OF_STOCK)
    /\ ~HasRow(feed_files[c], v, IN_STOCK)
    /\ CompositeId(v, c) \in DOMAIN variant_states
    /\ variant_states[CompositeId(v, c)].stock_status = OUT_OF_STOCK

\* C35: when an INCREMENTAL run is over, every key it found in stock whose
\* variant the export returned with all its inventory for the country at 0
\* is out of stock in the country's feed file and in the persisted state
C35_out_of_stock_propagated ==
    IncrementalRunOver =>
        \A v \in Variants, c \in Countries :
            WentOutOfStock(v, c) => ShownOutOfStock(v, c)

\* V1 went out of stock in US, the export returned it, the run is over, and
\* the US file and the persisted state still say in stock
C35_still_in_stock ==
    /\ IncrementalRunOver
    /\ WentOutOfStock("V1", "US")
    /\ HasRow(feed_files["US"], "V1", IN_STOCK)
    /\ variant_states[CompositeId("V1", "US")].stock_status = IN_STOCK

\* the other variants of the export that have stock in c
StockElsewhere(v, c) ==
    { w \in run.exported \ {v} :
          \E l \in ServingLocations(c) : inventory[<<w, l>>] > 0 }

\* the transition is propagated when another variant of the same export
\* has stock in the country
C35_propagated_with_stock_elsewhere ==
    IncrementalRunOver =>
        \A v \in Variants, c \in Countries :
            (WentOutOfStock(v, c) /\ StockElsewhere(v, c) # {}) => ShownOutOfStock(v, c)

\* such a run: V1 went out of stock in US while V2 has stock there
C35_propagated_state ==
    /\ IncrementalRunOver
    /\ WentOutOfStock("V1", "US")
    /\ StockElsewhere("V1", "US") # {}
    /\ ShownOutOfStock("V1", "US")

\* C40: after a completed FULL run that processed at least one
\* CountryVariant, the keys of the persisted states are exactly the
\* composite keys of that run's CountryVariants; no key of an earlier run
\* survives.
C40_full_run_replaces_key_set ==
    (Completed /\ run.sync_type = FULL /\ run.variants # <<>>) =>
        DOMAIN variant_states = { run.variants[i].id : i \in DOMAIN run.variants }

\* a FULL run has completed and a key the run before it had persisted is
\* gone, while the run's own keys are there
C40_witness ==
    /\ Completed
    /\ run.sync_type = FULL
    /\ run.variants # <<>>
    /\ run.committed
    /\ \E k \in DOMAIN snap.variant_states : k \notin DOMAIN variant_states
    /\ DOMAIN variant_states # {}

(***************************************************************************)
(* SpecDrive: one call of SyncManager.upload_files_with_cleanup by the     *)
(* smart sync, request by request, with every request free to fail         *)
(***************************************************************************)

MaxRetries == 2

GOOGLE_MAX_RETRY_DELAY == 60

\* settings.BASE_RETRY_DELAY, within the limits ConfigValidator accepts
BaseRetryDelays == {1, 2, 40}

\* settings.MAX_RETRY_DELAY of the meta deployment
MaxRetryDelays == {3, GOOGLE_MAX_RETRY_DELAY}

\* the countries of the feed files in the remote folder, the countries of the
\* files the run created, and the configuration of the call
DriveInputs ==
    { input \in
        [deployment : Deployments,
         service : BOOLEAN,
         sync_type : {FULL, INCREMENTAL},
         created : SUBSET Countries,
         TARGET_COUNTRIES : (SUBSET Countries) \ {{}},
         remote : SUBSET Countries,
         MAX_RETRIES : 0..MaxRetries,
         BASE_RETRY_DELAY : BaseRetryDelays,
         MAX_RETRY_DELAY : MaxRetryDelays] :
        /\ input.deployment = "google" =>
              /\ input.created \subseteq input.TARGET_COUNTRIES
              /\ input.MAX_RETRY_DELAY = GOOGLE_MAX_RETRY_DELAY
        /\ input.deployment = "meta" => input.TARGET_COUNTRIES = Countries }

\* created_files, one path per country
file_paths(input) == SortedFrom(CountryOrder, input.created)

\* the current_countries argument: meta reads the countries off the names of
\* the created files, google passes set(settings.TARGET_COUNTRIES)
current_countries(input) ==
    IF input.deployment = "meta" THEN input.created ELSE input.TARGET_COUNTRIES

\* google uploads only if files were created; meta calls the upload always
UploadIsCalled(input) ==
    input.deployment = "meta" \/ input.created # {}

\* the remote files the cleanup trashes: none without current countries, none
\* if the listing fails, and not the ones whose trash request fails
_cleanup_orphaned_drive_files(remote, countries, list_ok, failing) ==
    IF countries = {} \/ ~list_ok THEN {}
    ELSE { c \in remote : c \notin countries /\ c \notin failing }

\* a delay that doubles without a cap
RetryDelay_uncapped(input, attempt) ==
    input.BASE_RETRY_DELAY * (2 ^ attempt)

\* min(BASE_RETRY_DELAY * (2 ** attempt), MAX_RETRY_DELAY)
RetryDelay(input, attempt) ==
    Min(input.BASE_RETRY_DELAY * (2 ^ attempt), input.MAX_RETRY_DELAY)

NoUpload ==
    [pc |-> "start", remote |-> {}, trashed |-> {}, list_ok |-> TRUE,
     trash_failed |-> {}, index |-> 1, attempt |-> 0,
     attempts |-> [c \in Countries |-> 0],
     delays |-> [c \in Countries |-> <<>>],
     uploaded |-> {}, reported |-> {}, successful_uploads |-> 0, result |-> 0]

InitDrive ==
    /\ \E input \in DriveInputs :
           /\ store_input = input
           /\ store_op = [NoUpload EXCEPT !.remote = input.remote]
    /\ variant_states = EmptyMap
    /\ now = 1
    /\ InitRest

\* the first failure ends the loop over the files
upload_failed_abort(op, file_path) ==
    [op EXCEPT !.reported = @ \cup {file_path},
               !.index = Len(file_paths(store_input)) + 1,
               !.attempt = 0]

\* except Exception: logger.error(...), and the loop goes on with the next file
upload_failed(op, file_path) ==
    [op EXCEPT !.reported = @ \cup {file_path}, !.index = @ + 1, !.attempt = 0]

\* google: created_files is empty, the upload is not called
DriveNotCalled ==
    /\ store_op.pc = "start"
    /\ ~UploadIsCalled(store_input)
    /\ store_op' = [store_op EXCEPT !.pc = "not_called"]
    /\ UNCHANGED <<variant_states, now, store_input, restOfStore>>

\* if not self.service: return 0
DriveSkip ==
    /\ store_op.pc = "start"
    /\ UploadIsCalled(store_input)
    /\ ~store_input.service
    /\ store_op' = [store_op EXCEPT !.pc = "returned", !.result = 0]
    /\ UNCHANGED <<variant_states, now, store_input, restOfStore>>

\* the cleanup, unless sync_type is INCREMENTAL; its listing and each of its
\* trash requests may fail, and every failure is logged and swallowed
DriveCleanup ==
    /\ store_op.pc = "start"
    /\ UploadIsCalled(store_input)
    /\ store_input.service
    /\ \E list_ok \in BOOLEAN, failing \in SUBSET store_input.remote :
          LET trashed ==
                  IF store_input.sync_type = INCREMENTAL THEN {}
                  ELSE _cleanup_orphaned_drive_files(
                           store_input.remote, current_countries(store_input),
                           list_ok, failing)
          IN  /\ store_input.sync_type = INCREMENTAL =>
                     list_ok /\ failing = {}
              /\ ~list_ok => failing = {}
              /\ failing \subseteq store_input.remote \ current_countries(store_input)
              /\ store_op' = [store_op EXCEPT !.pc = "uploading",
                                              !.trashed = trashed,
                                              !.list_ok = list_ok,
                                              !.trash_failed = failing,
                                              !.remote = @ \ trashed]
    /\ UNCHANGED <<variant_states, now, store_input, restOfStore>>

\* one create or update request of the current file succeeds
DriveAttemptOk ==
    /\ store_op.pc = "uploading"
    /\ store_op.index <= Len(file_paths(store_input))
    /\ LET file_path == file_paths(store_input)[store_op.index]
       IN  store_op' = [store_op EXCEPT !.attempts[file_path] = @ + 1,
                                        !.uploaded = @ \cup {file_path},
                                        !.remote = @ \cup {file_path},
                                        !.successful_uploads = @ + 1,
                                        !.index = @ + 1,
                                        !.attempt = 0]
    /\ UNCHANGED <<variant_states, now, store_input, restOfStore>>

\* one request fails before the last attempt: sleep, then the next attempt
DriveAttemptRetry ==
    /\ store_op.pc = "uploading"
    /\ store_op.index <= Len(file_paths(store_input))
    /\ store_op.attempt < store_input.MAX_RETRIES
    /\ LET file_path == file_paths(store_input)[store_op.index]
       IN  store_op' = [store_op EXCEPT
                           !.attempts[file_path] = @ + 1,
                           !.delays[file_path] =
                               Append(@, RetryDelay(store_input, store_op.attempt)),
                           !.attempt = @ + 1]
    /\ UNCHANGED <<variant_states, now, store_input, restOfStore>>

\* the request of attempt MAX_RETRIES fails: _upload_file raises
DriveAttemptExhausted ==
    /\ store_op.pc = "uploading"
    /\ store_op.index <= Len(file_paths(store_input))
    /\ store_op.attempt = store_input.MAX_RETRIES
    /\ LET file_path == file_paths(store_input)[store_op.index]
       IN  store_op' = upload_failed(
                           [store_op EXCEPT !.attempts[file_path] = @ + 1],
                           file_path)
    /\ UNCHANGED <<variant_states, now, store_input, restOfStore>>

\* return successful_uploads
DriveReturn ==
    /\ store_op.pc = "uploading"
    /\ store_op.index > Len(file_paths(store_input))
    /\ store_op' = [store_op EXCEPT !.pc = "returned",
                                    !.result = store_op.successful_uploads]
    /\ UNCHANGED <<variant_states, now, store_input, restOfStore>>

NextDrive ==
    \/ DriveNotCalled
    \/ DriveSkip
    \/ DriveCleanup
    \/ DriveAttemptOk
    \/ DriveAttemptRetry
    \/ DriveAttemptExhausted
    \/ DriveReturn

SpecDrive == InitDrive /\ [][NextDrive]_vars

\* the delays slept for one file: the base delay or the cap first, then each
\* the double of the one before or the cap
DelaysDouble(delays, input) ==
    \A k \in DOMAIN delays :
        delays[k] = Min(IF k = 1 THEN input.BASE_RETRY_DELAY ELSE 2 * delays[k - 1],
                        input.MAX_RETRY_DELAY)

\* C31: an upload makes at most MAX_RETRIES + 1 requests per file with a
\* delay that doubles up to the cap; a file that exhausts them is reported,
\* every file of the list is still attempted, and the count returned is the
\* number of files uploaded
C31_bounded_retries_per_file ==
    /\ \A c \in Countries :
           /\ store_op.attempts[c] <= store_input.MAX_RETRIES + 1
           /\ Len(store_op.delays[c]) <= store_input.MAX_RETRIES
           /\ DelaysDouble(store_op.delays[c], store_input)
    /\ (store_op.pc = "returned" /\ store_input.service) =>
           /\ \A c \in store_input.created : store_op.attempts[c] >= 1
           /\ store_op.reported =
                 { c \in store_input.created :
                       /\ c \notin store_op.uploaded
                       /\ store_op.attempts[c] = store_input.MAX_RETRIES + 1 }
           /\ store_op.uploaded \cup store_op.reported = store_input.created
           /\ store_op.result = Cardinality(store_op.uploaded)

\* the first of two files exhausted three attempts, the last delay at the
\* cap, and the second file was uploaded on a retry
C31_witness ==
    /\ store_op.pc = "returned"
    /\ store_input.created = {"CA", "US"}
    /\ store_op.reported = {"CA"}
    /\ store_op.attempts["CA"] = MaxRetries + 1
    /\ store_op.delays["CA"][2] = store_input.MAX_RETRY_DELAY
    /\ store_op.delays["CA"][1] < store_input.MAX_RETRY_DELAY
    /\ store_op.uploaded = {"US"}
    /\ store_op.attempts["US"] = 2
    /\ store_op.result = 1

\* what the statement of C33 says of a call that is over
OrphansTrashed ==
    /\ store_op.trashed =
          IF store_input.sync_type = INCREMENTAL THEN {}
          ELSE store_input.remote \ store_input.created
    /\ store_input.sync_type = FULL => store_op.remote \subseteq store_input.created

\* C33: the upload of a run trashes a remote feed file exactly if the run is
\* not INCREMENTAL and the run produced nothing for the file's country:
\* after a FULL run no remote feed file is left for a country the run did
\* not produce, and an INCREMENTAL run trashes nothing
C33_orphans_trashed_in_full_only ==
    store_op.pc \in {"returned", "not_called"} => OrphansTrashed

\* google, FULL, every request answered: the run produced US alone, CA is a
\* target country, and the remote CA file is still there after the upload
C33_target_country_file_remains ==
    /\ store_input.deployment = "google"
    /\ store_input.sync_type = FULL
    /\ store_input.service
    /\ store_op.pc = "returned"
    /\ store_op.list_ok
    /\ store_op.trash_failed = {}
    /\ store_input.created = {"US"}
    /\ store_op.uploaded = {"US"}
    /\ "CA" \in store_input.remote
    /\ "CA" \in store_op.remote
    /\ store_op.trashed = {}

\* meta with files created, the upload target configured and every cleanup
\* request answered: the statement holds
C33_meta_without_failures ==
    (/\ store_op.pc = "returned"
     /\ store_input.deployment = "meta"
     /\ store_input.service
     /\ store_input.created # {}
     /\ store_op.list_ok
     /\ store_op.trash_failed = {}) => OrphansTrashed

\* an INCREMENTAL upload trashes nothing
C33_incremental_trashes_nothing ==
    store_input.sync_type = INCREMENTAL => store_op.trashed = {}

(***************************************************************************)
(* SpecMain: one invocation of main(), from the construction of the        *)
(* orchestrator to the exit of the process, with the requests it sends     *)
(***************************************************************************)

Modes == {"smart", "full", "incremental", "cleanup", "refresh-mapping", "clear-cache"}

SyncModes == {"smart", "full", "incremental"}

SHOPIFY == "shopify"
DRIVE == "drive"

EXIT_OK == 0
EXIT_FAILED == 1

\* the command, whether validate_all() finds errors, whether the shop
\* answers, and the upload target: not configured, configured with
\* credentials that do not load, or configured
MainInputs ==
    [mode : Modes,
     config_errors : BOOLEAN,
     shopify_reachable : BOOLEAN,
     drive : {"unconfigured", "bad_credentials", "configured"}]

\* SyncManager(): with credentials that load, _verify_folder_access asks
\* the upload target for the folder
SyncManagerInit(input) ==
    IF input.drive = "configured" THEN <<DRIVE>> ELSE <<>>

\* what test_connectivity reports: the shop does not answer, or the upload
\* target is configured and SyncManager().service is None
connectivity_errors(input) ==
    ~input.shopify_reachable \/ input.drive = "bad_credentials"

NoMain == [pc |-> "start", calls |-> <<>>, discarded |-> FALSE, warned |-> FALSE,
           exited |-> FALSE, status |-> EXIT_OK]

InitMain ==
    /\ \E input \in MainInputs :
           /\ store_input = input
           /\ store_op = NoMain
    /\ variant_states = EmptyMap
    /\ now = 1
    /\ InitRest

Exit(op, status) == [op EXCEPT !.pc = "exited", !.exited = TRUE, !.status = status]

\* a configuration error raises ValueError
_validate_configuration(op, input) ==
    IF input.config_errors THEN Exit(op, EXIT_FAILED)
    ELSE [op EXCEPT !.pc = "connectivity"]

\* orchestrator = SyncOrchestrator()
MainConstruct ==
    /\ store_op.pc = "start"
    /\ store_op' = [store_op EXCEPT !.pc = "dispatch",
                                    !.calls = @ \o SyncManagerInit(store_input)]
    /\ UNCHANGED <<variant_states, now, store_input, restOfStore>>

\* ConfigValidator.validate_all() in main: the list it returns is dropped
MainQuickValidation ==
    /\ store_op.pc = "dispatch"
    /\ store_op' = [store_op EXCEPT
                       !.pc = "handler",
                       !.discarded = store_input.mode # "clear-cache"
                                     /\ store_input.config_errors]
    /\ UNCHANGED <<variant_states, now, store_input, restOfStore>>

\* run_smart, run_full, run_incremental: _validate_configuration first
MainSyncValidate ==
    /\ store_op.pc = "handler"
    /\ store_input.mode \in SyncModes
    /\ store_op' = _validate_configuration(store_op, store_input)
    /\ UNCHANGED <<variant_states, now, store_input, restOfStore>>

\* test_connectivity: Shop.current() and a new SyncManager(); what it
\* reports is logged as a warning
MainSyncConnectivity ==
    /\ store_op.pc = "connectivity"
    /\ store_op' = [store_op EXCEPT
                       !.pc = "sync",
                       !.calls = @ \o <<SHOPIFY>> \o SyncManagerInit(store_input),
                       !.warned = connectivity_errors(store_input)]
    /\ UNCHANGED <<variant_states, now, store_input, restOfStore>>

\* the run itself, which starts with the locations export: without an
\* answer of the shop it raises, otherwise it ends or raises later
MainSync ==
    /\ store_op.pc = "sync"
    /\ \E raised \in BOOLEAN :
          /\ ~store_input.shopify_reachable => raised
          /\ store_op' = Exit([store_op EXCEPT !.calls = @ \o <<SHOPIFY>>],
                              IF raised THEN EXIT_FAILED ELSE EXIT_OK)
    /\ UNCHANGED <<variant_states, now, store_input, restOfStore>>

\* refresh_mapping_cache: clear_mapping_hash, then a fresh mapping
MainRefreshMapping ==
    /\ store_op.pc = "handler"
    /\ store_input.mode = "refresh-mapping"
    /\ \E raised \in BOOLEAN :
          /\ ~store_input.shopify_reachable => raised
          /\ store_op' = Exit([store_op EXCEPT !.calls = @ \o <<SHOPIFY>>],
                              IF raised THEN EXIT_FAILED ELSE EXIT_OK)
    /\ UNCHANGED <<variant_states, now, store_input, restOfStore>>

\* cleanup_orphaned_files and clear_mapping_cache work on local files
MainLocal ==
    /\ store_op.pc = "handler"
    /\ store_input.mode \in {"cleanup", "clear-cache"}
    /\ store_op' = Exit(store_op, EXIT_OK)
    /\ UNCHANGED <<variant_states, now, store_input, restOfStore>>

NextMain ==
    \/ MainConstruct
    \/ MainQuickValidation
    \/ MainSyncValidate
    \/ MainSyncConnectivity
    \/ MainSync
    \/ MainRefreshMapping
    \/ MainLocal

SpecMain == InitMain /\ [][NextMain]_vars

\* the invocation meets a configuration error or a connectivity error
FatalError == store_input.config_errors \/ connectivity_errors(store_input)

\* C32: a command that meets a configuration or connectivity error sends no
\* request to the shop or to the upload target, and exits with a status
\* other than zero
C32_fatal_error_aborts_before_remote_call ==
    FatalError =>
        /\ store_op.calls = <<>>
        /\ store_op.exited => store_op.status # EXIT_OK

\* refresh-mapping with a configuration error: the errors were dropped, the
\* shop was asked, and the process exited with status zero
C32_refresh_with_config_error ==
    /\ store_input.mode = "refresh-mapping"
    /\ store_input.config_errors
    /\ store_op.discarded
    /\ store_op.calls = <<SHOPIFY>>
    /\ store_op.exited
    /\ store_op.status = EXIT_OK

\* a sync command with a connectivity error went on after the warning and
\* sent its requests
C32_sync_goes_on_after_connectivity_error ==
    /\ store_input.mode \in SyncModes
    /\ ~store_input.config_errors
    /\ connectivity_errors(store_input)
    /\ store_op.warned
    /\ store_op.exited
    /\ Len(store_op.calls) >= 2

\* a sync command with a configuration error exits with status 1 and has
\* not asked the shop
C32_sync_config_error_aborts ==
    (store_input.mode \in SyncModes /\ store_input.config_errors /\ store_op.exited) =>
        /\ store_op.status = EXIT_FAILED
        /\ \A i \in DOMAIN store_op.calls : store_op.calls[i] # SHOPIFY

(***************************************************************************)
(* SpecChange: commands one after another, each with the point where it    *)
(* ends, and the mapping fingerprint and checkpoint they leave behind      *)
(***************************************************************************)

MaxCommands == 4

ChangeLocations ==
    [l \in Locations |-> [country_code |-> IF l = "L1" THEN "US" ELSE "CA",
                          is_active |-> TRUE]]

ChangeInputs == [delivery : {EmptyMap, [l \in {"L2"} |-> {"US"}]}]

\* where a sync command ends: the locations export fails, the run is
\* aborted after the detection and before the feeds are written, the
\* product export yields no variant, or the run completes
RunEnds == {"mapping_failed", "aborted", "no_data", "completed"}

NoCommand == [cmd |-> "", found_pending |-> "none", has_changed |-> FALSE,
              sync_type |-> "", outcome |-> ""]

\* pending: the last detection that reported a change no FULL run has
\* written the feeds for, by the way its command ended
NoChange ==
    [markets |-> {"US"}, mapping_hash_file |-> NoHash, sync_state |-> NoneSync,
     pending |-> "none", commands |-> 0, last |-> NoCommand]

InitChange ==
    /\ \E input \in ChangeInputs :
           /\ store_input = input
           /\ store_op = NoChange
    /\ variant_states = EmptyMap
    /\ now = 1
    /\ InitRest

\* the detection of a command on the shop as it is
Detection(op, input) ==
    get_mapping_with_change_detection(
        TRUE, op.mapping_hash_file,
        BuildMapping(op.markets, ChangeLocations, input.delivery).mapping_hash)

\* run_smart
ChangeSmart(outcome) ==
    /\ store_op.commands < MaxCommands
    /\ LET got == Detection(store_op, store_input)
           strategy == _determine_smart_sync_strategy(got.has_changed, store_op.sync_state)
           sync_timestamp == <<store_op.commands + 1>>
       IN  store_op' =
              IF outcome = "mapping_failed"
              THEN [store_op EXCEPT
                       !.commands = @ + 1,
                       !.last = [cmd |-> "smart", found_pending |-> store_op.pending,
                                 has_changed |-> FALSE, sync_type |-> "",
                                 outcome |-> outcome]]
              ELSE [store_op EXCEPT
                       !.commands = @ + 1,
                       !.mapping_hash_file = got.saved,
                       !.sync_state = IF outcome = "aborted" THEN @ ELSE sync_timestamp,
                       !.pending =
                           IF outcome = "completed"
                           THEN (IF strategy.sync_type = FULL THEN "none" ELSE @)
                           ELSE (IF got.has_changed THEN outcome ELSE @),
                       !.last = [cmd |-> "smart", found_pending |-> store_op.pending,
                                 has_changed |-> got.has_changed,
                                 sync_type |-> strategy.sync_type,
                                 outcome |-> outcome]]
    /\ UNCHANGED <<variant_states, now, store_input, restOfStore>>

\* run_full: the same detection, FULL whatever it reports, and no
\* checkpoint when the export yields no variant
ChangeFull(outcome) ==
    /\ store_op.commands < MaxCommands
    /\ LET got == Detection(store_op, store_input)
           sync_timestamp == <<store_op.commands + 1>>
       IN  store_op' =
              IF outcome = "mapping_failed"
              THEN [store_op EXCEPT
                       !.commands = @ + 1,
                       !.last = [cmd |-> "full", found_pending |-> store_op.pending,
                                 has_changed |-> FALSE, sync_type |-> "",
                                 outcome |-> outcome]]
              ELSE [store_op EXCEPT
                       !.commands = @ + 1,
                       !.mapping_hash_file = got.saved,
                       !.sync_state = IF outcome = "completed" THEN sync_timestamp ELSE @,
                       !.pending =
                           IF outcome = "completed" THEN "none"
                           ELSE (IF got.has_changed THEN outcome ELSE @),
                       !.last = [cmd |-> "full", found_pending |-> store_op.pending,
                                 has_changed |-> got.has_changed,
                                 sync_type |-> FULL, outcome |-> outcome]]
    /\ UNCHANGED <<variant_states, now, store_input, restOfStore>>

\* refresh_mapping_cache: clear_mapping_hash, then the detection, which
\* finds no previous hash, reports a change and saves the fresh hash
ChangeRefresh(outcome) ==
    /\ store_op.commands < MaxCommands
    /\ LET cleared == [store_op EXCEPT !.mapping_hash_file = NoHash]
           got == Detection(cleared, store_input)
       IN  store_op' =
              IF outcome = "mapping_failed"
              THEN [cleared EXCEPT
                       !.commands = @ + 1,
                       !.last = [cmd |-> "refresh-mapping",
                                 found_pending |-> store_op.pending,
                                 has_changed |-> FALSE, sync_type |-> "",
                                 outcome |-> outcome]]
              ELSE [cleared EXCEPT
                       !.commands = @ + 1,
                       !.mapping_hash_file = got.saved,
                       !.pending = IF got.has_changed THEN "refresh" ELSE @,
                       !.last = [cmd |-> "refresh-mapping",
                                 found_pending |-> store_op.pending,
                                 has_changed |-> got.has_changed, sync_type |-> "",
                                 outcome |-> outcome]]
    /\ UNCHANGED <<variant_states, now, store_input, restOfStore>>

\* the markets of the shop change between two commands
ChangeMarkets(codes) ==
    /\ store_op.commands < MaxCommands
    /\ store_op.markets # codes
    /\ store_op' = [store_op EXCEPT !.markets = codes]
    /\ UNCHANGED <<variant_states, now, store_input, restOfStore>>

NextChange ==
    \/ \E outcome \in RunEnds : ChangeSmart(outcome)
    \/ \E outcome \in RunEnds : ChangeFull(outcome)
    \/ \E outcome \in {"mapping_failed", "completed"} : ChangeRefresh(outcome)
    \/ \E codes \in SUBSET Countries : ChangeMarkets(codes)

SpecChange == InitChange /\ [][NextChange]_vars

\* C34: a smart run that follows a detection which reported a change, in a
\* run aborted before the feeds were written or in refresh_mapping_cache,
\* with no FULL run in between, selects FULL
C34_detected_change_never_lost ==
    (/\ store_op.last.cmd = "smart"
     /\ store_op.last.sync_type # ""
     /\ store_op.last.found_pending \in {"aborted", "refresh"})
        => store_op.last.sync_type = FULL

\* a smart run after a run that detected a change and was aborted has
\* found the fingerprint unchanged and selected INCREMENTAL
C34_change_lost_after_abort ==
    /\ store_op.last.cmd = "smart"
    /\ store_op.last.found_pending = "aborted"
    /\ ~store_op.last.has_changed
    /\ store_op.last.sync_type = INCREMENTAL

\* the same after refresh_mapping_cache
C34_change_lost_after_refresh ==
    /\ store_op.last.cmd = "smart"
    /\ store_op.last.found_pending = "refresh"
    /\ ~store_op.last.has_changed
    /\ store_op.last.sync_type = INCREMENTAL

(***************************************************************************)
(* SpecPoll: one execute_bulk_query call against a remote side that        *)
(* registers the submitted job some time after it has answered             *)
(***************************************************************************)

\* a bulk operation with its id
IdJob(id, status, url) == [id |-> id, status |-> status, url |-> url]
NoIdJob == IdJob("", "", FALSE)

\* what currentBulkOperation answers before the call: nothing, or the job
\* of an earlier call in the state it ended in
PollInputs ==
    [earlier : {NoIdJob} \cup
               { IdJob("earlier", status, url) :
                     <<status, url>> \in {<<"COMPLETED", TRUE>>, <<"COMPLETED", FALSE>>,
                                          <<"FAILED", FALSE>>} }]

NoPoll ==
    [pc |-> "submit", slot |-> NoIdJob, submitted |-> FALSE, registered |-> FALSE,
     polls |-> 0, first_poll_saw |-> "", returned |-> NoIdJob, result |-> "",
     error |-> ""]

InitPoll ==
    /\ \E input \in PollInputs :
           /\ store_input = input
           /\ store_op = [NoPoll EXCEPT !.slot = input.earlier]
    /\ variant_states = EmptyMap
    /\ now = 1
    /\ InitRest

\* the bulkOperationRunQuery mutation; the id in its answer is not kept
PollSubmit ==
    /\ store_op.pc = "submit"
    /\ \E answer \in {"started", "user_errors", "graphql_errors"} :
          store_op' = [store_op EXCEPT
                          !.submitted = (answer = "started"),
                          !.error = IF answer = "started" THEN "" ELSE answer,
                          !.pc = SubmitOutcome(answer)]
    /\ UNCHANGED <<variant_states, now, store_input, restOfStore>>

\* the remote side makes the submitted job the current bulk operation
PollRegister ==
    /\ store_op.submitted
    /\ ~store_op.registered
    /\ store_op' = [store_op EXCEPT !.registered = TRUE,
                                    !.slot = IdJob("own", "CREATED", FALSE)]
    /\ UNCHANGED <<variant_states, now, store_input, restOfStore>>

\* the remote side works on the job of this call
PollRemoteAdvance ==
    /\ store_op.slot.id = "own"
    /\ \E next \in [id : {"own"}, status : BulkStatuses, url : BOOLEAN] :
          /\ \/ store_op.slot.status = "CREATED" /\ next.status = "RUNNING"
             \/ store_op.slot.status = "RUNNING"
                   /\ next.status \in {"COMPLETED", "FAILED"}
          /\ next.url => next.status = "COMPLETED"
          /\ store_op' = [store_op EXCEPT !.slot = next]
    /\ UNCHANGED <<variant_states, now, store_input, restOfStore>>

\* time.sleep(10)
PollInitialDelay ==
    /\ store_op.pc = "sleep"
    /\ store_op' = [store_op EXCEPT !.pc = "poll"]
    /\ UNCHANGED <<variant_states, now, store_input, restOfStore>>

\* one pass of the while loop: the currentBulkOperation query and the test
\* of its status
PollOnce ==
    /\ store_op.pc = "poll"
    /\ LET bulk_op == store_op.slot
           outcome == IF bulk_op = NoIdJob THEN "raise" ELSE PollOutcome(bulk_op.status)
       IN  store_op' = [store_op EXCEPT
                           !.polls = @ + 1,
                           !.first_poll_saw = IF store_op.polls = 0 THEN bulk_op.id ELSE @,
                           !.returned = IF outcome = "return" THEN bulk_op ELSE @,
                           !.result = IF outcome = "return" /\ ~bulk_op.url
                                      THEN "none" ELSE @,
                           !.error = IF outcome = "raise"
                                     THEN (IF bulk_op = NoIdJob THEN "no_current" ELSE "status")
                                     ELSE @,
                           !.pc = CASE outcome = "wait" -> "wait"
                                    [] outcome = "raise" -> "raised"
                                    [] outcome = "return" ->
                                         IF bulk_op.url THEN "download" ELSE "returned"]
    /\ UNCHANGED <<variant_states, now, store_input, restOfStore>>

\* time.sleep(30)
PollWait ==
    /\ store_op.pc = "wait"
    /\ store_op.polls < MaxPolls
    /\ store_op' = [store_op EXCEPT !.pc = "poll"]
    /\ UNCHANGED <<variant_states, now, store_input, restOfStore>>

\* _download_bulk_result(bulk_operation["url"])
PollDownload ==
    /\ store_op.pc = "download"
    /\ \E downloaded \in BOOLEAN :
          store_op' = [store_op EXCEPT
                          !.result = IF downloaded THEN "file" ELSE @,
                          !.error = IF downloaded THEN @ ELSE "download_failed",
                          !.pc = IF downloaded THEN "returned" ELSE "raised"]
    /\ UNCHANGED <<variant_states, now, store_input, restOfStore>>

NextPoll ==
    \/ PollSubmit
    \/ PollRegister
    \/ PollRemoteAdvance
    \/ PollInitialDelay
    \/ PollOnce
    \/ PollWait
    \/ PollDownload

SpecPoll == InitPoll /\ [][NextPoll]_vars

\* C38: the job the poll loop returns, and the result that is downloaded,
\* is the job this call submitted, also when the remote side had not
\* registered it at the first poll
C38_returns_own_job ==
    store_op.returned # NoIdJob => store_op.returned.id = "own"

\* the first poll came before the job was registered and found the earlier
\* job COMPLETED: its result was downloaded and returned
C38_earlier_result_returned ==
    /\ store_op.submitted
    /\ store_op.polls = 1
    /\ store_op.first_poll_saw = "earlier"
    /\ store_op.returned = IdJob("earlier", "COMPLETED", TRUE)
    /\ store_op.pc = "returned"
    /\ store_op.result = "file"

\* when the job is registered before the first poll, the job returned is
\* the job of this call
C38_own_job_when_registered_in_time ==
    (store_op.returned # NoIdJob /\ store_op.first_poll_saw = "own")
        => store_op.returned.id = "own"

C38_own_result_returned ==
    /\ store_op.first_poll_saw = "own"
    /\ store_op.returned = IdJob("own", "COMPLETED", TRUE)
    /\ store_op.result = "file"

====
